---- MODULE Spec2Model ----
(***************************************************************************)
(* Verification model of the credential cache of the LiteLLM sidecar:      *)
(*   - RedisClient (src/litellm/azure_token_wrapper.py): a remote          *)
(*     key/value store with an in-process fallback map;                    *)
(*   - AzureTokenManager.get_token: the lazy, lock-coordinated token       *)
(*     fetch built on it;                                                  *)
(*   - ResilientRedisClient (src/litellm/v4/redis_client.py): the          *)
(*     write-through variant of the store wrapper.                         *)
(* Time is counted in half seconds (the backoff sleep is 0.5 s).           *)
(***************************************************************************)
EXTENDS Integers, Sequences, FiniteSets, TLC

\* ------------------------------------------------------------------------
\* Bounds of the model
\* ------------------------------------------------------------------------
MaxTicks == 2
TickSteps == {1, 80}
Lifetimes == {30, 400}
Procs == {"p1", "p2"}
Callers == {"c1", "c2"}
AllCallers == {"c1", "c2", "c3"}
ProcOf == [c \in AllCallers |-> IF c = "c3" THEN "p2" ELSE "p1"]
MainProcs == {ProcOf[c] : c \in Callers}
SyncCallers == {"c1"}
KvProcs == {"p1"}
Identities == {"idA"}
KvKeys == {<<"k">>}
KvValues == {<<"v1">>, <<"v2">>}
KvTtls == {1, 60}
MaxExpirySeconds == 86400
MaxBlobChanges == 3
MaxPolls == 3
Impls == {"runner", "v2", "v3"}
PollDocs == {"D1", "D2", "NoList", "ListDoc", "BadYaml"}
ValidatorDocs ==
  PollDocs \cup {"Empty", "Scalar", "ListIsMapping", "EmptyList", "TwoModels",
                 "EntryIsString", "NoModelName", "NoParams", "ParamsIsString",
                 "NoModel", "SecondEntryBad"}
MaxStarts == 2
Tids == 1..MaxStarts
LTasks == 1..MaxStarts
MaxCloses == 1
CredIdentities == {"idA", "idB"}
CredThreads == {"t1", "t2"}

\* ------------------------------------------------------------------------
\* Program constants
\* ------------------------------------------------------------------------
TicksPerSecond == 2
TOKEN_BUFFER_SECONDS == 300
MinTtlSeconds == 60
MemoryLockSeconds == 10
BackoffTicks == 1
SyncTimeoutSeconds == 30

Sec(n) == n * TicksPerSecond

None == <<>>
NoExpiry == -1
LockValue == <<"locked">>

_cache_key(client_id) == <<"mi_token", client_id>>
_lock_key(client_id) == <<"mi_token", client_id, "lock">>
Keys == {_cache_key(i) : i \in Identities} \cup {_lock_key(i) : i \in Identities}
          \cup KvKeys

VARIABLES
  now,            \* wall clock, in half seconds
  ticks,          \* number of clock advances so far (bounds the run)
  remoteUp,       \* the remote Redis server answers
  redisStore,     \* remote store: key -> <<>> or <<value, expiry>>
  initialized,    \* per process: RedisClient.initialize has run
  available,      \* per process: RedisClient.available
  memory_cache,   \* per process: RedisClient.memory_cache
  pc,             \* per caller: position inside get_token
  client_id,      \* per caller: argument of get_token
  lock_acquired,  \* per caller: local of get_token
  lock_made,      \* per caller: the lock record its setnx created: <<store, expiry>>
  wake,           \* per caller: end of the backoff sleep
  slept,          \* per caller: the backoff sleep was taken
  result,         \* per caller: token returned, or token being stored
  served,         \* per caller: which step produced the outcome
  simul,          \* per caller: its first read missed together with the others'
  sync_out,       \* per caller: what get_token_sync gave its caller
  elapsed,        \* per caller: time waited in get_token_sync, capped at the timeout
  kv_last,        \* the last store operation made directly on a client
  rr_constructed, \* ResilientRedisClient.__init__ has run
  rr_using_fallback, \* ResilientRedisClient._using_fallback
  rr_memory_cache,   \* ResilientRedisClient._memory_cache: key -> <<>> or value
  ttl_in,         \* TTL computation: expiry - now of the provider's token
  ttl_out,        \* TTL computation: the TTL computed, -1 before
  impl,           \* which configuration synchronizer runs
  blob,           \* object store: the content of the configuration blob
  blob_etag,      \* object store: the version number behind the blob's etag
  active,         \* local file: the active configuration
  last_good,      \* local file: the last-good (backup) configuration
  temp,           \* local file: the temp file of the install
  last_etag,      \* BlobConfigFetcher.last_etag
  last_hash,      \* last_content_hash (runner), _last_hash (v2), last_hash (v3)
  cpc,            \* position of the synchronizer inside startup or a poll cycle
  cand,           \* local of a cycle: the content downloaded
  cur_etag,       \* local of check_for_updates: current_etag
  cyc,            \* the running cycle: remote content it met, active file at its start
  polls,          \* the completed poll cycles, oldest first
  notified,       \* how the latest post-install notification ended, and of which poll
  recording,      \* the finished cycles are kept in the histories (and so bounded)
  d_blob,         \* v4/v5 object store: the content of the configuration blob
  d_changes,      \* v4/v5 object store: number of uploads so far
  d_file,         \* v4/v5 local file: config.yaml
  d_temp,         \* v4/v5 local file: config.yaml.tmp
  d_boot,         \* position of initial_config_fetch
  d_stop,         \* ConfigRefreshDaemon._stop_event is set
  d_pos,          \* per thread: position inside _refresh_loop
  d_stats,        \* ConfigRefreshDaemon (v4): the counters of get_stats
  d_cycles,       \* the finished fetch attempts and refresh cycles, oldest first
  l_running,      \* ConfigManager.running
  l_task,         \* ConfigManager.reload_task: the task created last, 0 before
  l_pos,          \* per reload task: the await it is suspended at
  l_cancel,       \* per reload task: cancel() was called and not yet delivered
  l_cut,          \* the cycles that a cancellation interrupted: <<task, await>>
  credentials,    \* AzureTokenManager.credentials: identity -> handle, None for none
  cred_lock,      \* AzureTokenManager.credentials_lock: its holder, "free" if none
  cred_pc,        \* per thread: position inside _get_credential
  cred_arg,       \* per thread: the client_id it asked for
  cred_got,       \* per thread: the handle _get_credential returned, None before
  cred_made,      \* per identity: the handles created since the pool was cleared
  cred_epoch      \* the number of times close cleared the pool

envvars == <<now, ticks, remoteUp>>
clientvars == <<initialized, available>>
kvvars == <<redisStore, memory_cache>>
callervars == <<pc, client_id, lock_acquired, lock_made, wake, slept, result, served,
                simul, sync_out, elapsed>>
opvars == <<kv_last>>
rrvars == <<rr_constructed, rr_using_fallback, rr_memory_cache>>
ttlvars == <<ttl_in, ttl_out>>
syncvars == <<impl, blob, blob_etag, active, last_good, temp, last_etag, last_hash,
              cpc, cand, cur_etag, cyc, polls, notified, recording>>
daemonvars == <<d_blob, d_changes, d_file, d_temp, d_boot, d_stop, d_pos, d_stats,
                d_cycles>>
loopvars == <<l_running, l_task, l_pos, l_cancel, l_cut>>
credvars == <<credentials, cred_lock, cred_pc, cred_arg, cred_got, cred_made, cred_epoch>>
cfgvars == <<syncvars, daemonvars, loopvars, credvars>>
othervars == <<opvars, rrvars, ttlvars, cfgvars>>

vars == <<now, ticks, remoteUp, redisStore, initialized, available, memory_cache,
          callervars, opvars, rrvars, ttlvars, cfgvars>>

\* ------------------------------------------------------------------------
\* Store entries
\* ------------------------------------------------------------------------
Live(e, t) == e # None /\ (e[2] = NoExpiry \/ t < e[2])

EmptyStore == [k \in Keys |-> None]

\* ------------------------------------------------------------------------
\* RedisClient: every operation returns what it returned to its caller
\* (ret), whether it raised, which store answered (src) and the stores
\* after the call.
\* ------------------------------------------------------------------------
RemoteAnswers(p) == available[p] /\ remoteUp

\* A get that never asks the remote store.
RedisClient_get_fallback_only(p, key) ==
  LET entry == memory_cache[p][key] IN
  IF entry # None /\ now < entry[2]
  THEN [ret |-> entry[1], raised |-> FALSE, src |-> "memory",
        redis |-> redisStore, mem |-> memory_cache[p]]
  ELSE [ret |-> None, raised |-> FALSE, src |-> "memory",
        redis |-> redisStore,
        mem |-> [memory_cache[p] EXCEPT ![key] = None]]

\* A get that ignores the expiry of the entries of the fallback map.
RedisClient_get_keeps_expired(p, key) ==
  IF RemoteAnswers(p)
  THEN [ret |-> IF Live(redisStore[key], now) THEN redisStore[key][1] ELSE None,
        raised |-> FALSE, src |-> "remote",
        redis |-> redisStore, mem |-> memory_cache[p]]
  ELSE LET entry == memory_cache[p][key] IN
       [ret |-> IF entry # None THEN entry[1] ELSE None,
        raised |-> FALSE, src |-> "memory",
        redis |-> redisStore, mem |-> memory_cache[p]]

RedisClient_get(p, key) ==
  IF RemoteAnswers(p)
  THEN [ret |-> IF Live(redisStore[key], now) THEN redisStore[key][1] ELSE None,
        raised |-> FALSE, src |-> "remote",
        redis |-> redisStore, mem |-> memory_cache[p]]
  ELSE LET entry == memory_cache[p][key] IN
       IF entry # None /\ now < entry[2]
       THEN [ret |-> entry[1], raised |-> FALSE, src |-> "memory",
             redis |-> redisStore, mem |-> memory_cache[p]]
       ELSE [ret |-> None, raised |-> FALSE, src |-> "memory",
             redis |-> redisStore,
             mem |-> [memory_cache[p] EXCEPT ![key] = None]]

\* A setex that drops the value when the remote store does not answer.
RedisClient_setex_remote_only(p, key, seconds, value) ==
  IF RemoteAnswers(p)
  THEN [ret |-> TRUE, raised |-> FALSE, src |-> "remote",
        redis |-> [redisStore EXCEPT ![key] = <<value, now + Sec(seconds)>>],
        mem |-> memory_cache[p]]
  ELSE [ret |-> TRUE, raised |-> FALSE, src |-> "memory",
        redis |-> redisStore, mem |-> memory_cache[p]]

RedisClient_setex(p, key, seconds, value) ==
  IF RemoteAnswers(p)
  THEN [ret |-> TRUE, raised |-> FALSE, src |-> "remote",
        redis |-> [redisStore EXCEPT ![key] = <<value, now + Sec(seconds)>>],
        mem |-> memory_cache[p]]
  ELSE [ret |-> TRUE, raised |-> FALSE, src |-> "memory",
        redis |-> redisStore,
        mem |-> [memory_cache[p] EXCEPT ![key] = <<value, now + Sec(seconds)>>]]

\* A setnx that overwrites an existing key and reports it as created.
RedisClient_setnx_overwrite(p, key, value) ==
  IF RemoteAnswers(p)
  THEN [ret |-> TRUE, raised |-> FALSE, src |-> "remote",
        redis |-> [redisStore EXCEPT ![key] = <<value, NoExpiry>>],
        mem |-> memory_cache[p]]
  ELSE [ret |-> TRUE, raised |-> FALSE, src |-> "memory",
        redis |-> redisStore,
        mem |-> [memory_cache[p] EXCEPT
                   ![key] = <<value, now + Sec(MemoryLockSeconds)>>]]

RedisClient_setnx(p, key, value) ==
  IF RemoteAnswers(p)
  THEN IF Live(redisStore[key], now)
       THEN [ret |-> FALSE, raised |-> FALSE, src |-> "remote",
             redis |-> redisStore, mem |-> memory_cache[p]]
       ELSE [ret |-> TRUE, raised |-> FALSE, src |-> "remote",
             redis |-> [redisStore EXCEPT ![key] = <<value, NoExpiry>>],
             mem |-> memory_cache[p]]
  ELSE LET entry == memory_cache[p][key] IN
       IF entry # None /\ now < entry[2]
       THEN [ret |-> FALSE, raised |-> FALSE, src |-> "memory",
             redis |-> redisStore, mem |-> memory_cache[p]]
       ELSE [ret |-> TRUE, raised |-> FALSE, src |-> "memory",
             redis |-> redisStore,
             mem |-> [memory_cache[p] EXCEPT
                        ![key] = <<value, now + Sec(MemoryLockSeconds)>>]]

\* A delete that lets the remote error through.
RedisClient_delete_raising(p, key) ==
  IF RemoteAnswers(p)
  THEN [ret |-> None, raised |-> FALSE, src |-> "remote",
        redis |-> [redisStore EXCEPT ![key] = None],
        mem |-> memory_cache[p]]
  ELSE IF available[p]
       THEN [ret |-> None, raised |-> TRUE, src |-> "none",
             redis |-> redisStore, mem |-> memory_cache[p]]
       ELSE [ret |-> None, raised |-> FALSE, src |-> "memory",
             redis |-> redisStore,
             mem |-> [memory_cache[p] EXCEPT ![key] = None]]

RedisClient_delete(p, key) ==
  IF RemoteAnswers(p)
  THEN [ret |-> None, raised |-> FALSE, src |-> "remote",
        redis |-> [redisStore EXCEPT ![key] = None],
        mem |-> memory_cache[p]]
  ELSE [ret |-> None, raised |-> FALSE, src |-> "memory",
        redis |-> redisStore,
        mem |-> [memory_cache[p] EXCEPT ![key] = None]]

\* The stores after an operation r made by process p.
Apply(p, r) ==
  /\ redisStore' = r.redis
  /\ memory_cache' = [memory_cache EXCEPT ![p] = r.mem]

\* What is remembered of an operation a client made directly.
NoOp == [client |-> "none", op |-> "none", key |-> <<>>, value |-> None,
         seconds |-> 0, ret |-> None, raised |-> FALSE, src |-> "none",
         remote_error |-> FALSE, at |-> 0,
         set_src |-> "none", set_value |-> None,
         before |-> "none", prev_setnx |-> "none"]

\* ------------------------------------------------------------------------
\* Configuration documents, their parsing and the three validations
\* ------------------------------------------------------------------------
\* One entry of model_list that has every required field.
GoodModel == [is_dict |-> TRUE, keys |-> {"model_name", "litellm_params"},
              params_is_dict |-> TRUE, params_keys |-> {"model"}]

NoModels == [is_list |-> FALSE, entries |-> <<>>]

\* An entry of model_list with the given shape; a string has as its keys
\* the substrings that Python's  in  finds in it.
Model(is_dict, keys, params_is_dict, params_keys) ==
  [is_dict |-> is_dict, keys |-> keys,
   params_is_dict |-> params_is_dict, params_keys |-> params_keys]

\* A mapping whose model_list is the list of these entries.
MappingOf(entries) ==
  [raises |-> FALSE, kind |-> "mapping", keys |-> {"model_list"},
   items |-> {}, model_list |-> [is_list |-> TRUE, entries |-> entries]]

\* yaml.safe_load(content): D1 and D2 are two different mappings with a
\* model_list of one good entry, NoList a mapping without model_list,
\* ListDoc the YAML list ["model_list"], BadYaml bytes that do not parse,
\* Empty no bytes at all (None), Scalar a string that contains model_list;
\* the others are mappings whose model_list their name describes.
yaml_safe_load(content) ==
  CASE content \in {"D1", "D2"} ->
         [raises |-> FALSE, kind |-> "mapping", keys |-> {"model_list", content},
          items |-> {}, model_list |-> [is_list |-> TRUE, entries |-> <<GoodModel>>]]
    [] content = "NoList" ->
         [raises |-> FALSE, kind |-> "mapping", keys |-> {"general_settings"},
          items |-> {}, model_list |-> NoModels]
    [] content = "ListDoc" ->
         [raises |-> FALSE, kind |-> "list", keys |-> {},
          items |-> {"model_list"}, model_list |-> NoModels]
    [] content = "Empty" ->
         [raises |-> FALSE, kind |-> "none", keys |-> {}, items |-> {},
          model_list |-> NoModels]
    [] content = "Scalar" ->
         [raises |-> FALSE, kind |-> "str", keys |-> {},
          items |-> {"model_list"}, model_list |-> NoModels]
    [] content = "ListIsMapping" ->
         [raises |-> FALSE, kind |-> "mapping", keys |-> {"model_list"},
          items |-> {}, model_list |-> NoModels]
    [] content = "EmptyList" -> MappingOf(<<>>)
    [] content = "TwoModels" -> MappingOf(<<GoodModel, GoodModel>>)
    [] content = "EntryIsString" ->
         MappingOf(<<Model(FALSE, {"model_name", "litellm_params"}, FALSE, {})>>)
    [] content = "NoModelName" ->
         MappingOf(<<Model(TRUE, {"litellm_params"}, TRUE, {"model"})>>)
    [] content = "NoParams" ->
         MappingOf(<<Model(TRUE, {"model_name"}, FALSE, {})>>)
    [] content = "ParamsIsString" ->
         MappingOf(<<Model(TRUE, {"model_name", "litellm_params"}, FALSE, {"model"})>>)
    [] content = "NoModel" ->
         MappingOf(<<Model(TRUE, {"model_name", "litellm_params"}, TRUE, {"api_base"})>>)
    [] content = "SecondEntryBad" ->
         MappingOf(<<GoodModel, Model(TRUE, {"model_name"}, FALSE, {})>>)
    [] OTHER ->
         [raises |-> TRUE, kind |-> "none", keys |-> {}, items |-> {},
          model_list |-> NoModels]

\* Python's  key in data  for a mapping (its keys), a list (its items) and
\* a string (its substrings).
Contains(data, key) ==
  \/ data.kind = "mapping" /\ key \in data.keys
  \/ data.kind \in {"list", "str"} /\ key \in data.items

\* Python's  not data.
Falsy(data) ==
  \/ data.kind = "none"
  \/ data.kind = "mapping" /\ data.keys = {}
  \/ data.kind = "list" /\ data.items = {}

\* The document is a mapping that has the key model_list.
HasModelListMapping(content) ==
  LET data == yaml_safe_load(content)
  IN ~data.raises /\ data.kind = "mapping" /\ "model_list" \in data.keys

EntryOk(model) ==
  /\ model.is_dict
  /\ "model_name" \in model.keys
  /\ "litellm_params" \in model.keys
  /\ model.params_is_dict
  /\ "model" \in model.params_keys

\* ConfigValidator.validate, but an empty model_list passes.
ConfigValidator_validate_allows_empty(data) ==
  IF data.kind = "none" THEN FALSE
  ELSE IF ~Contains(data, "model_list") THEN FALSE
  ELSE IF data.kind # "mapping" THEN FALSE
  ELSE IF ~data.model_list.is_list THEN FALSE
  ELSE \A idx \in 1..Len(data.model_list.entries) :
         EntryOk(data.model_list.entries[idx])

\* ConfigValidator.validate(config_data): is_valid. A TypeError raised by
\* the membership test on None or by config_data["model_list"] on a list is
\* caught by its except clause.
ConfigValidator_validate(data) ==
  IF data.kind = "none" THEN FALSE
  ELSE IF ~Contains(data, "model_list") THEN FALSE
  ELSE IF data.kind # "mapping" THEN FALSE
  ELSE IF ~data.model_list.is_list THEN FALSE
  ELSE IF Len(data.model_list.entries) = 0 THEN FALSE
  ELSE \A idx \in 1..Len(data.model_list.entries) :
         EntryOk(data.model_list.entries[idx])

\* The runner accepts content: it parses and ConfigValidator accepts it.
RunnerAccepts(content) ==
  LET data == yaml_safe_load(content)
  IN ~data.raises /\ ConfigValidator_validate(data)

\* v2, the try block of _download_and_activate: no exception is raised.
V2Accepts(content) ==
  LET data == yaml_safe_load(content)
  IN ~data.raises /\ ~Falsy(data) /\ Contains(data, "model_list")

\* v3, yaml.safe_load and _validate: no exception is raised.
V3Accepts(content) ==
  LET data == yaml_safe_load(content)
  IN /\ ~data.raises
     /\ data.kind # "none"
     /\ Contains(data, "model_list")
     /\ data.kind = "mapping"
     /\ data.model_list.is_list /\ Len(data.model_list.entries) > 0

Accepts(i, content) ==
  CASE i = "runner" -> RunnerAccepts(content)
    [] i = "v2" -> V2Accepts(content)
    [] OTHER -> V3Accepts(content)

\* hashlib.sha256(content).hexdigest(), taken as free of collisions.
Hash(content) == <<"sha256", content>>

\* The etag of version n of the blob.
Etag(n) == <<"etag", n>>

\* A file: missing, holding content, or holding a part of content only.
NoFile == <<>>
File(content) == <<content>>
Partial(content) == <<content, "partial">>

\* No cycle is running.
NoCycle == [files |-> <<NoFile, NoFile, NoFile>>, initial |-> FALSE]

\* The daemon of v4 and v5 before initial_config_fetch is called.
DaemonInit(b) ==
  /\ d_blob = b
  /\ d_changes = 0
  /\ d_file = NoFile
  /\ d_temp = NoFile
  /\ d_boot = "fetch"
  /\ d_stop = FALSE
  /\ d_pos = [t \in Tids |-> "none"]
  /\ d_stats = [total_refreshes |-> 0, total_failures |-> 0,
                last_refresh_success |-> FALSE]
  /\ d_cycles = <<>>

\* No reload task has been created.
LoopInit ==
  /\ l_running = FALSE
  /\ l_task = 0
  /\ l_pos = [t \in LTasks |-> "none"]
  /\ l_cancel = [t \in LTasks |-> FALSE]
  /\ l_cut = {}

\* AzureTokenManager.__init__: an empty pool of credential handles.
CredInit ==
  /\ credentials = [i \in CredIdentities |-> None]
  /\ cred_lock = "free"
  /\ cred_pc = [c \in CredThreads |-> "idle"]
  /\ cred_arg = [c \in CredThreads |-> "idA"]
  /\ cred_got = [c \in CredThreads |-> None]
  /\ cred_made = [i \in CredIdentities |-> 0]
  /\ cred_epoch = 0

\* The synchronizer i before it starts, with b in the object store.
SyncInit(i, b) ==
  /\ impl = i
  /\ blob = b
  /\ blob_etag = 0
  /\ active = NoFile
  /\ last_good = NoFile
  /\ temp = NoFile
  /\ last_etag = None
  /\ last_hash = None
  /\ cpc = IF i = "v3" THEN "idle" ELSE "start"
  /\ cand = None
  /\ cur_etag = None
  /\ cyc = NoCycle
  /\ polls = <<>>
  /\ notified = <<"none", 0>>

\* The synchronizer i before it starts, the histories kept, no daemon.
CfgInit(i, b) ==
  /\ SyncInit(i, b)
  /\ recording = TRUE
  /\ DaemonInit("D1")
  /\ LoopInit
  /\ CredInit

\* ------------------------------------------------------------------------
\* Initial state: after construction of the clients, before initialize()
\* ------------------------------------------------------------------------
InitStores ==
  /\ now = 0
  /\ ticks = 0
  /\ remoteUp \in BOOLEAN
  /\ redisStore = EmptyStore
  /\ initialized = [p \in Procs |-> FALSE]
  /\ available = [p \in Procs |-> FALSE]
  /\ memory_cache = [p \in Procs |-> EmptyStore]
  /\ pc = [c \in AllCallers |-> "idle"]
  /\ client_id = [c \in AllCallers |-> "idA"]
  /\ lock_acquired = [c \in AllCallers |-> FALSE]
  /\ lock_made = [c \in AllCallers |-> None]
  /\ wake = [c \in AllCallers |-> 0]
  /\ slept = [c \in AllCallers |-> FALSE]
  /\ result = [c \in AllCallers |-> None]
  /\ served = [c \in AllCallers |-> "none"]
  /\ simul = [c \in AllCallers |-> FALSE]
  /\ sync_out = [c \in AllCallers |-> "none"]
  /\ elapsed = [c \in AllCallers |-> 0]
  /\ kv_last = NoOp
  /\ rr_constructed = FALSE
  /\ rr_using_fallback = FALSE
  /\ rr_memory_cache = [k \in KvKeys |-> None]
  /\ ttl_out = -1

InitCommon ==
  /\ InitStores
  /\ CfgInit("none", "D1")

Init ==
  /\ InitCommon
  /\ ttl_in = 0

\* ------------------------------------------------------------------------
\* RedisClient.initialize: host is whether a Redis host is configured
\* ------------------------------------------------------------------------
Initialize(p, host) ==
  /\ ~initialized[p]
  /\ initialized' = [initialized EXCEPT ![p] = TRUE]
  /\ available' = [available EXCEPT ![p] = host /\ remoteUp]
  /\ UNCHANGED <<envvars, kvvars, callervars, othervars>>

\* ------------------------------------------------------------------------
\* AzureTokenManager.get_token, one action per await point
\* ------------------------------------------------------------------------
\* int() of a number of half seconds, in seconds: truncation toward zero.
TruncSeconds(t) == IF t >= 0 THEN t \div TicksPerSecond ELSE -((-t) \div TicksPerSecond)

\* The TTL without the minimum.
ComputeTtl_no_floor(expires_on, t) ==
  TruncSeconds(expires_on - t) - TOKEN_BUFFER_SECONDS

\* TTL with buffer: int((expiry_time - now).total_seconds()) - buffer,
\* raised to the one-minute minimum.
ComputeTtl(expires_on, t) ==
  LET raw == TruncSeconds(expires_on - t) - TOKEN_BUFFER_SECONDS
  IN IF raw < MinTtlSeconds THEN MinTtlSeconds ELSE raw

\* The provider's token: who fetched it and its true expiry instant.
Token(c, expires_on) == <<c, expires_on>>
ExpiresOn(token) == token[2]

\* A try block that turns the provider's error into a return.
AfterTry_swallow(c, ok) ==
  IF lock_acquired[c] THEN "release" ELSE "done"

\* Leaving the try block: the finally clause deletes the lock only when
\* this call acquired it.
AfterTry(c, ok) ==
  IF lock_acquired[c] THEN "release" ELSE IF ok THEN "done" ELSE "failed"

\* get_token_sync: future.result(timeout=30) hands the coroutine's outcome
\* to the synchronous caller unless the wait is already over.
SyncAfter(c, newpc) ==
  IF sync_out[c] = "pending" /\ newpc \in {"done", "failed"}
  THEN [sync_out EXCEPT ![c] =
          IF elapsed[c] >= Sec(SyncTimeoutSeconds) THEN "TimeoutError"
          ELSE IF newpc = "done" THEN "returned" ELSE "raised"]
  ELSE sync_out

\* The first read, but the call goes on to the lock whatever it read.
Enter_always_locks(c, i, sync) ==
  /\ pc[c] = "idle"
  /\ initialized[ProcOf[c]]
  /\ client_id' = [client_id EXCEPT ![c] = i]
  /\ LET r == RedisClient_get(ProcOf[c], _cache_key(i))
     IN /\ Apply(ProcOf[c], r)
        /\ pc' = [pc EXCEPT ![c] = "setnx"]
        /\ sync_out' = [sync_out EXCEPT ![c] = IF sync THEN "pending" ELSE "none"]
        /\ simul' = [simul EXCEPT ![c] =
              \A d \in AllCallers \ {c} :
                 pc[d] = "idle" \/ (pc[d] = "setnx" /\ simul[d])]
        /\ UNCHANGED <<result, served>>
  /\ UNCHANGED <<envvars, clientvars, lock_acquired, lock_made, wake, slept, elapsed, othervars>>

\* The first read of get_token(i):
\* cached_token = await self.redis.get(cache_key); a hit returns.
Enter(c, i, sync) ==
  /\ pc[c] = "idle"
  /\ initialized[ProcOf[c]]
  /\ client_id' = [client_id EXCEPT ![c] = i]
  /\ LET r == RedisClient_get(ProcOf[c], _cache_key(i))
         newpc == IF r.ret # None THEN "done" ELSE "setnx"
     IN /\ Apply(ProcOf[c], r)
        /\ pc' = [pc EXCEPT ![c] = newpc]
        /\ sync_out' = [sync_out EXCEPT ![c] =
                          IF ~sync THEN "none"
                          ELSE IF newpc = "done" THEN "returned" ELSE "pending"]
        /\ IF r.ret # None
           THEN /\ result' = [result EXCEPT ![c] = r.ret]
                /\ served' = [served EXCEPT ![c] = "read1"]
                /\ UNCHANGED simul
           ELSE /\ simul' = [simul EXCEPT ![c] =
                     \A d \in AllCallers \ {c} :
                        pc[d] = "idle" \/ (pc[d] = "setnx" /\ simul[d])]
                /\ UNCHANGED <<result, served>>
  /\ UNCHANGED <<envvars, clientvars, lock_acquired, lock_made, wake, slept, elapsed, othervars>>

\* await manager.get_token(i)
get_token(c, i) == Enter(c, i, FALSE)

\* manager.get_token_sync(i): the coroutine is scheduled on the background loop.
get_token_sync(c, i) == Enter(c, i, TRUE)

\* manager.get_token_sync(i) before initialize(): there is no loop.
get_token_sync_no_loop(c) ==
  /\ pc[c] = "idle"
  /\ ~initialized[ProcOf[c]]
  /\ pc' = [pc EXCEPT ![c] = "failed"]
  /\ sync_out' = [sync_out EXCEPT ![c] = "RuntimeError"]
  /\ UNCHANGED <<envvars, clientvars, kvvars, client_id, lock_acquired, lock_made, wake, slept,
                 result, served, simul, elapsed, othervars>>

\* future.result(timeout=30) gives up; the coroutine goes on.
SyncTimeout(c) ==
  /\ sync_out[c] = "pending"
  /\ elapsed[c] >= Sec(SyncTimeoutSeconds)
  /\ sync_out' = [sync_out EXCEPT ![c] = "TimeoutError"]
  /\ UNCHANGED <<envvars, clientvars, kvvars, pc, client_id, lock_acquired, lock_made,
                 wake, slept, result, served, simul, elapsed,
                 othervars>>

\* lock_acquired = await self.redis.setnx(lock_key, "locked"); a caller
\* that did not get the lock starts the backoff sleep.
Setnx(c) ==
  /\ pc[c] = "setnx"
  /\ LET r == RedisClient_setnx(ProcOf[c], _lock_key(client_id[c]), LockValue) IN
       /\ Apply(ProcOf[c], r)
       /\ lock_acquired' = [lock_acquired EXCEPT ![c] = r.ret]
       /\ lock_made' = [lock_made EXCEPT ![c] =
                          IF ~r.ret THEN None
                          ELSE IF r.src = "remote"
                               THEN <<"remote", r.redis[_lock_key(client_id[c])][2]>>
                               ELSE <<"memory", r.mem[_lock_key(client_id[c])][2]>>]
       /\ pc' = [pc EXCEPT ![c] = IF r.ret THEN "read3" ELSE "sleep"]
       /\ wake' = [wake EXCEPT ![c] = IF r.ret THEN 0 ELSE now + BackoffTicks]
  /\ UNCHANGED <<envvars, clientvars, client_id, slept, result, served,
                 simul, sync_out, elapsed, othervars>>

\* The read after the sleep, but a miss goes back to the lock.
Read2_retries_lock(c) ==
  /\ pc[c] = "sleep"
  /\ now >= wake[c]
  /\ slept' = [slept EXCEPT ![c] = TRUE]
  /\ wake' = [wake EXCEPT ![c] = 0]
  /\ LET r == RedisClient_get(ProcOf[c], _cache_key(client_id[c]))
         newpc == IF r.ret # None THEN "done" ELSE "setnx"
     IN /\ Apply(ProcOf[c], r)
        /\ pc' = [pc EXCEPT ![c] = newpc]
        /\ sync_out' = SyncAfter(c, newpc)
        /\ IF r.ret # None
           THEN /\ result' = [result EXCEPT ![c] = r.ret]
                /\ served' = [served EXCEPT ![c] = "read2"]
           ELSE UNCHANGED <<result, served>>
  /\ UNCHANGED <<envvars, clientvars, client_id, lock_acquired, lock_made, simul,
                 elapsed, othervars>>

\* await asyncio.sleep(0.5) is over and the cache is read again: a hit
\* returns, a miss falls through to the try block.
Read2(c) ==
  /\ pc[c] = "sleep"
  /\ now >= wake[c]
  /\ slept' = [slept EXCEPT ![c] = TRUE]
  /\ wake' = [wake EXCEPT ![c] = 0]
  /\ LET r == RedisClient_get(ProcOf[c], _cache_key(client_id[c]))
         newpc == IF r.ret # None THEN "done" ELSE "read3"
     IN /\ Apply(ProcOf[c], r)
        /\ pc' = [pc EXCEPT ![c] = newpc]
        /\ sync_out' = SyncAfter(c, newpc)
        /\ IF r.ret # None
           THEN /\ result' = [result EXCEPT ![c] = r.ret]
                /\ served' = [served EXCEPT ![c] = "read2"]
           ELSE UNCHANGED <<result, served>>
  /\ UNCHANGED <<envvars, clientvars, client_id, lock_acquired, lock_made, simul,
                 elapsed, othervars>>

\* The try block without the double-check: the provider call is issued
\* whatever the cache holds.
Read3_ignores_hit(c) ==
  /\ pc[c] = "read3"
  /\ LET r == RedisClient_get(ProcOf[c], _cache_key(client_id[c]))
     IN /\ Apply(ProcOf[c], r)
        /\ pc' = [pc EXCEPT ![c] = "fetching"]
        /\ sync_out' = SyncAfter(c, "fetching")
        /\ served' = [served EXCEPT ![c] = "provider"]
        /\ UNCHANGED result
  /\ UNCHANGED <<envvars, clientvars, client_id, lock_acquired, lock_made, wake, slept,
                 simul, elapsed, othervars>>

\* The double-check inside the try block; on a miss the provider call
\* (_fetch_token_from_mi) is issued.
Read3(c) ==
  /\ pc[c] = "read3"
  /\ LET r == RedisClient_get(ProcOf[c], _cache_key(client_id[c]))
         newpc == IF r.ret # None THEN AfterTry(c, TRUE) ELSE "fetching"
     IN /\ Apply(ProcOf[c], r)
        /\ pc' = [pc EXCEPT ![c] = newpc]
        /\ sync_out' = SyncAfter(c, newpc)
        /\ IF r.ret # None
           THEN /\ result' = [result EXCEPT ![c] = r.ret]
                /\ served' = [served EXCEPT ![c] = "read3"]
           ELSE /\ served' = [served EXCEPT ![c] = "provider"]
                /\ UNCHANGED result
  /\ UNCHANGED <<envvars, clientvars, client_id, lock_acquired, lock_made, wake, slept,
                 simul, elapsed, othervars>>

\* credential.get_token returns a token that lives d more seconds on the
\* provider's whole-second clock; the TTL is computed and the token is
\* stored: await self.redis.setex(cache_key, ttl_seconds, token_str).
ProviderReturns(c, d) ==
  /\ pc[c] = "fetching"
  /\ LET expires_on == Sec((now \div TicksPerSecond) + d)
         token_str == Token(c, expires_on)
         r == RedisClient_setex(ProcOf[c], _cache_key(client_id[c]),
                                ComputeTtl(expires_on, now), token_str)
         newpc == AfterTry(c, TRUE)
     IN /\ Apply(ProcOf[c], r)
        /\ result' = [result EXCEPT ![c] = token_str]
        /\ pc' = [pc EXCEPT ![c] = newpc]
        /\ sync_out' = SyncAfter(c, newpc)
  /\ UNCHANGED <<envvars, clientvars, client_id, lock_acquired, lock_made, wake, slept,
                 served, simul, elapsed, othervars>>

\* The provider's error, but a token of the failed attempt is cached for
\* the minimum TTL before the error leaves the try block.
ProviderFails_caches_attempt(c) ==
  /\ pc[c] = "fetching"
  /\ LET r == RedisClient_setex(ProcOf[c], _cache_key(client_id[c]),
                                MinTtlSeconds, Token(c, now))
     IN Apply(ProcOf[c], r)
  /\ pc' = [pc EXCEPT ![c] = AfterTry(c, FALSE)]
  /\ sync_out' = SyncAfter(c, AfterTry(c, FALSE))
  /\ UNCHANGED <<envvars, clientvars, client_id, lock_acquired, lock_made, wake,
                 slept, result, served, simul, elapsed, othervars>>

\* credential.get_token raises: the error leaves the try block.
ProviderFails(c) ==
  /\ pc[c] = "fetching"
  /\ pc' = [pc EXCEPT ![c] = AfterTry(c, FALSE)]
  /\ sync_out' = SyncAfter(c, AfterTry(c, FALSE))
  /\ UNCHANGED <<envvars, clientvars, kvvars, client_id, lock_acquired, lock_made, wake,
                 slept, result, served, simul, elapsed, othervars>>

\* finally: if lock_acquired: await self.redis.delete(lock_key); then the
\* token is returned or the provider's error goes on to the caller.
Release(c) ==
  /\ pc[c] = "release"
  /\ LET r == RedisClient_delete(ProcOf[c], _lock_key(client_id[c]))
         newpc == IF result[c] = None THEN "failed" ELSE "done"
     IN /\ Apply(ProcOf[c], r)
        /\ pc' = [pc EXCEPT ![c] = newpc]
        /\ sync_out' = SyncAfter(c, newpc)
  /\ lock_made' = [lock_made EXCEPT ![c] = None]
  /\ UNCHANGED <<envvars, clientvars, client_id, lock_acquired, wake, slept,
                 result, served, simul, elapsed, othervars>>

\* ------------------------------------------------------------------------
\* Environment
\* ------------------------------------------------------------------------
\* Time passes; the Redis server drops the keys whose TTL is over.
Tick(s) ==
  /\ ticks < MaxTicks
  /\ ticks' = ticks + 1
  /\ now' = now + s
  /\ redisStore' = [k \in Keys |->
                      IF Live(redisStore[k], now + s) THEN redisStore[k] ELSE None]
  /\ elapsed' = [c \in AllCallers |->
                   IF sync_out[c] # "pending" THEN elapsed[c]
                   ELSE IF elapsed[c] + s >= Sec(SyncTimeoutSeconds)
                        THEN Sec(SyncTimeoutSeconds) ELSE elapsed[c] + s]
  /\ UNCHANGED <<remoteUp, clientvars, memory_cache, pc, client_id,
                 lock_acquired, lock_made, wake, slept, result, served, simul, sync_out, othervars>>

RemoteFails ==
  /\ remoteUp
  /\ remoteUp' = FALSE
  /\ UNCHANGED <<now, ticks, clientvars, kvvars, callervars, othervars>>

RemoteRecovers ==
  /\ ~remoteUp
  /\ remoteUp' = TRUE
  /\ UNCHANGED <<now, ticks, clientvars, kvvars, callervars, othervars>>

\* The process dies: its calls stop where they are, its fallback map is
\* lost, what it wrote to the remote store stays.  A new process starts
\* from the constructed state.
Running == {"setnx", "sleep", "read3", "fetching", "release"}

Crash(p) ==
  /\ \E c \in AllCallers : ProcOf[c] = p /\ pc[c] \in Running
  /\ pc' = [c \in AllCallers |->
              IF ProcOf[c] = p /\ pc[c] \in Running THEN "crashed" ELSE pc[c]]
  /\ memory_cache' = [memory_cache EXCEPT ![p] = EmptyStore]
  /\ initialized' = [initialized EXCEPT ![p] = FALSE]
  /\ available' = [available EXCEPT ![p] = FALSE]
  /\ UNCHANGED <<envvars, redisStore, client_id, lock_acquired, lock_made, wake, slept,
                 result, served, simul, sync_out, elapsed, othervars>>

\* ------------------------------------------------------------------------
\* A client of RedisClient using the four operations directly
\* ------------------------------------------------------------------------
\* The operation op on key of client comes right after a set of the same
\* key on the same client, with a ttl > 0 that is not over yet.
AfterSet(client, op, key) ==
  /\ op = "get"
  /\ kv_last.op \in {"setex", "set"}
  /\ kv_last.client = client
  /\ kv_last.key = key
  /\ kv_last.seconds > 0
  /\ now < kv_last.at + Sec(kv_last.seconds)

\* What the store that answers an operation of a RedisClient held under key
\* before the call: nothing, an entry whose expiry has passed, or a live one.
\* The Redis server has dropped its expired keys by itself.
Before(client, key, src) ==
  IF client \notin Procs THEN "none"
  ELSE IF src = "remote"
       THEN IF Live(redisStore[key], now) THEN "live" ELSE "absent"
       ELSE LET entry == memory_cache[client][key] IN
            IF entry = None THEN "absent"
            ELSE IF now < entry[2] THEN "live" ELSE "expired"

\* The operation comes right after a setnx of the same key on the same
\* client that returned True, at the same instant.
AfterSetnx(client, op, key) ==
  /\ op = "setnx"
  /\ kv_last.op = "setnx"
  /\ kv_last.ret = <<TRUE>>
  /\ kv_last.client = client
  /\ kv_last.key = key
  /\ kv_last.at = now

\* The record of the last operation; the value a get returned is kept as it
\* is, the result of the other operations as a one-element tuple. A get
\* right after a set also records what answered the set and its value.
Remember(client, op, key, value, seconds, r, err) ==
  kv_last' = [client |-> client, op |-> op, key |-> key, value |-> value,
              seconds |-> seconds,
              ret |-> IF op = "get" THEN r.ret ELSE <<r.ret>>,
              raised |-> r.raised,
              src |-> r.src, remote_error |-> err, at |-> now,
              set_src |-> IF AfterSet(client, op, key) THEN kv_last.src ELSE "none",
              set_value |-> IF AfterSet(client, op, key) THEN kv_last.value ELSE None,
              before |-> Before(client, key, r.src),
              prev_setnx |-> IF ~AfterSetnx(client, op, key) THEN "none"
                             ELSE IF kv_last.src = "remote" THEN "remote"
                             ELSE IF kv_last.remote_error THEN "fallback"
                             ELSE "memory"]

\* The remote call of an operation of process p raises.
RemoteError(p) == available[p] /\ ~remoteUp

KvGet(p, key) ==
  /\ LET r == RedisClient_get(p, key) IN
       /\ Apply(p, r)
       /\ Remember(p, "get", key, None, 0, r, RemoteError(p))
  /\ UNCHANGED <<envvars, clientvars, callervars, rrvars, ttlvars, cfgvars>>

KvSetex(p, key, seconds, value) ==
  /\ LET r == RedisClient_setex(p, key, seconds, value) IN
       /\ Apply(p, r)
       /\ Remember(p, "setex", key, value, seconds, r, RemoteError(p))
  /\ UNCHANGED <<envvars, clientvars, callervars, rrvars, ttlvars, cfgvars>>

KvSetnx(p, key, value) ==
  /\ LET r == RedisClient_setnx(p, key, value) IN
       /\ Apply(p, r)
       /\ Remember(p, "setnx", key, value, 0, r, RemoteError(p))
  /\ UNCHANGED <<envvars, clientvars, callervars, rrvars, ttlvars, cfgvars>>

KvDelete(p, key) ==
  /\ LET r == RedisClient_delete(p, key) IN
       /\ Apply(p, r)
       /\ Remember(p, "delete", key, None, 0, r, RemoteError(p))
  /\ UNCHANGED <<envvars, clientvars, callervars, rrvars, ttlvars, cfgvars>>

\* ------------------------------------------------------------------------
\* ResilientRedisClient (v4): the remote store first, the in-memory map
\* always written as a backup and never expiring
\* ------------------------------------------------------------------------
\* __init__ / _initialize_redis: enabled is config.enabled
ResilientRedisClient_init(enabled) ==
  /\ ~rr_constructed
  /\ rr_constructed' = TRUE
  /\ rr_using_fallback' = ~(enabled /\ remoteUp)
  /\ UNCHANGED <<envvars, clientvars, kvvars, callervars,
                 rr_memory_cache, opvars, ttlvars, cfgvars>>

ResilientRedisClient_get(key) ==
  IF ~rr_using_fallback /\ remoteUp
  THEN [ret |-> IF Live(redisStore[key], now) THEN redisStore[key][1] ELSE None,
        raised |-> FALSE, src |-> "remote",
        redis |-> redisStore, mem |-> rr_memory_cache]
  ELSE [ret |-> rr_memory_cache[key], raised |-> FALSE, src |-> "memory",
        redis |-> redisStore, mem |-> rr_memory_cache]

ResilientRedisClient_set(key, value, ttl_seconds) ==
  IF ~rr_using_fallback /\ remoteUp
  THEN [ret |-> TRUE, raised |-> FALSE, src |-> "remote",
        redis |-> [redisStore EXCEPT ![key] = <<value, now + Sec(ttl_seconds)>>],
        mem |-> [rr_memory_cache EXCEPT ![key] = value]]
  ELSE [ret |-> FALSE, raised |-> FALSE, src |-> "memory",
        redis |-> redisStore,
        mem |-> [rr_memory_cache EXCEPT ![key] = value]]

ResilientRedisClient_delete(key) ==
  IF ~rr_using_fallback /\ remoteUp
  THEN [ret |-> TRUE, raised |-> FALSE, src |-> "remote",
        redis |-> [redisStore EXCEPT ![key] = None],
        mem |-> [rr_memory_cache EXCEPT ![key] = None]]
  ELSE [ret |-> FALSE, raised |-> FALSE, src |-> "memory",
        redis |-> redisStore,
        mem |-> [rr_memory_cache EXCEPT ![key] = None]]

RRApply(r) ==
  /\ redisStore' = r.redis
  /\ rr_memory_cache' = r.mem

RRGet(key) ==
  /\ rr_constructed
  /\ LET r == ResilientRedisClient_get(key) IN
       /\ RRApply(r)
       /\ Remember("resilient", "get", key, None, 0, r, ~rr_using_fallback /\ ~remoteUp)
  /\ UNCHANGED <<envvars, clientvars, memory_cache, callervars,
                 rr_constructed, rr_using_fallback, ttlvars, cfgvars>>

RRSet(key, value, ttl_seconds) ==
  /\ rr_constructed
  /\ LET r == ResilientRedisClient_set(key, value, ttl_seconds) IN
       /\ RRApply(r)
       /\ Remember("resilient", "set", key, value, ttl_seconds, r,
                   ~rr_using_fallback /\ ~remoteUp)
  /\ UNCHANGED <<envvars, clientvars, memory_cache, callervars,
                 rr_constructed, rr_using_fallback, ttlvars, cfgvars>>

RRDelete(key) ==
  /\ rr_constructed
  /\ LET r == ResilientRedisClient_delete(key) IN
       /\ RRApply(r)
       /\ Remember("resilient", "delete", key, None, 0, r,
                   ~rr_using_fallback /\ ~remoteUp)
  /\ UNCHANGED <<envvars, clientvars, memory_cache, callervars,
                 rr_constructed, rr_using_fallback, ttlvars, cfgvars>>

\* ------------------------------------------------------------------------
\* The TTL computation of get_token on its own
\* ------------------------------------------------------------------------
TtlCompute ==
  /\ ttl_out = -1
  /\ ttl_out' = ComputeTtl(now + ttl_in, now)
  /\ UNCHANGED <<envvars, clientvars, kvvars, callervars, opvars,
                 rrvars, ttl_in, cfgvars>>

\* ------------------------------------------------------------------------
\* Configuration synchronizers: the runner, v2 and v3
\* ------------------------------------------------------------------------
corevars == <<now, ticks, remoteUp, redisStore, initialized, available,
              memory_cache, callervars, opvars, rrvars, ttlvars>>

\* What no step of the synchronizers and of the daemon changes.
basevars == <<corevars, loopvars, credvars>>

\* What no step of the synchronizers of the runner, v2 and v3 changes.
storevars == <<basevars, daemonvars>>

Content(file) == file[1]

Files == <<active, last_good, temp>>

\* The record of a finished poll: the remote content it met, whether it
\* downloaded it, how it ended, and the three local files before and after.
PollRec(content, downloaded, outcome, before, after) ==
  [content |-> File(content), downloaded |-> downloaded, outcome |-> outcome,
   before |-> before, after |-> after]

\* The history with one more finished poll, when the history is kept.
Logged(rec) == IF recording THEN Append(polls, rec) ELSE polls

\* A new poll may start: always, or while the history has room.
CanPoll == recording => Len(polls) < MaxPolls

\* EndAtOnce, but the cycle removes the active file on its way out.
EndAtOnce_unlink_active(content, downloaded, outcome) ==
  /\ polls' = Logged(PollRec(content, downloaded, outcome, Files,
                                    <<NoFile, last_good, temp>>))
  /\ cpc' = "idle"
  /\ cand' = None
  /\ active' = NoFile
  /\ UNCHANGED <<cyc, last_good, temp>>

\* A cycle that ends in its first step.
EndAtOnce(content, downloaded, outcome) ==
  /\ polls' = Logged(PollRec(content, downloaded, outcome, Files, Files))
  /\ cpc' = "idle"
  /\ cand' = None
  /\ UNCHANGED <<cyc, active, last_good, temp>>

\* A cycle that ends in a later step, with the local files as given.
EndCycle(outcome, a, g, t) ==
  /\ active' = a
  /\ last_good' = g
  /\ temp' = t
  /\ cand' = None
  /\ cyc' = NoCycle
  /\ IF cyc.initial
       THEN /\ cpc' = IF outcome = "installed" THEN "idle" ELSE "init_failed"
            /\ UNCHANGED polls
       ELSE /\ cpc' = "idle"
            /\ polls' = Logged(PollRec(Content(cand), TRUE, outcome,
                                              cyc.files, <<a, g, t>>))

\* The positions at which the synchronizer has yet to read the blob in the
\* startup or cycle it is in; at the others an upload is seen by the next
\* cycle only, as one made after the cycle is.
ReadsBlob == {"start", "init_written", "init_props", "idle", "download"}

\* The operator of the deployment uploads a new version of the blob.
BlobChange(d) ==
  /\ impl \in Impls
  /\ cpc \in ReadsBlob
  /\ blob_etag < MaxBlobChanges
  /\ blob' = d
  /\ blob_etag' = blob_etag + 1
  /\ UNCHANGED <<impl, recording, notified, active, last_good, temp, last_etag, last_hash, cpc, cand,
                 cur_etag, cyc, polls, storevars>>

\* --- runner ---------------------------------------------------------------
\* download_initial_config: the download, and write_bytes opening the active
\* file and starting to write the content into it.
DownloadInitialConfig_write(ok) ==
  /\ impl = "runner" /\ cpc = "start"
  /\ IF ok
       THEN /\ cand' = File(blob)
            /\ active' = Partial(blob)
            /\ cpc' = "init_written"
       ELSE /\ cpc' = "init_failed"
            /\ UNCHANGED <<cand, active>>
  /\ UNCHANGED <<impl, recording, notified, blob, blob_etag, last_good, temp, last_etag, last_hash,
                 cur_etag, cyc, polls, storevars>>

\* download_initial_config: write_bytes completes, copy2 to last-good.
DownloadInitialConfig_copy(ok) ==
  /\ impl = "runner" /\ cpc = "init_written"
  /\ active' = cand
  /\ IF ok
       THEN /\ last_good' = cand
            /\ cpc' = "init_props"
       ELSE /\ cpc' = "init_failed"
            /\ UNCHANGED last_good
  /\ UNCHANGED <<impl, recording, notified, blob, blob_etag, temp, last_etag, last_hash, cand, cur_etag,
                 cyc, polls, storevars>>

\* download_initial_config: the metadata; ConfigManager.initialize: validation.
ConfigManager_initialize(ok) ==
  /\ impl = "runner" /\ cpc = "init_props"
  /\ IF ok
       THEN /\ last_etag' = Etag(blob_etag)
            /\ last_hash' = Hash(Content(cand))
            /\ cpc' = IF RunnerAccepts(Content(cand)) THEN "idle" ELSE "init_failed"
       ELSE /\ cpc' = "init_failed"
            /\ UNCHANGED <<last_etag, last_hash>>
  /\ cand' = None
  /\ UNCHANGED <<impl, recording, notified, blob, blob_etag, active, last_good, temp, cur_etag, cyc,
                 polls, storevars>>

\* check_for_updates: get_blob_properties and the etag comparison.
CheckForUpdates_props(ok) ==
  /\ impl = "runner" /\ cpc = "idle" /\ CanPoll
  /\ IF ~ok
       THEN /\ EndAtOnce(blob, FALSE, "fetch_failed")
            /\ UNCHANGED cur_etag
       ELSE IF Etag(blob_etag) = last_etag
         THEN /\ EndAtOnce(blob, FALSE, "unchanged")
              /\ UNCHANGED cur_etag
         ELSE /\ cur_etag' = Etag(blob_etag)
              /\ cyc' = [files |-> Files, initial |-> FALSE]
              /\ cpc' = "download"
              /\ UNCHANGED <<cand, polls, active, last_good, temp>>
  /\ UNCHANGED <<impl, recording, notified, blob, blob_etag, last_etag, last_hash, storevars>>

\* check_for_updates: the download and the hash comparison; reload_config:
\* the temp file, parsing and validation.
CheckForUpdates_download(ok) ==
  /\ impl = "runner" /\ cpc = "download"
  /\ cur_etag' = None
  /\ IF ~ok
       THEN /\ polls' = Logged(PollRec(blob, FALSE, "fetch_failed",
                                              cyc.files, Files))
            /\ cpc' = "idle"
            /\ cyc' = NoCycle
            /\ UNCHANGED <<cand, temp, last_etag, last_hash>>
       ELSE IF Hash(blob) = last_hash
         THEN /\ last_etag' = cur_etag
              /\ polls' = Logged(PollRec(blob, TRUE, "unchanged",
                                                cyc.files, Files))
              /\ cpc' = "idle"
              /\ cyc' = NoCycle
              /\ UNCHANGED <<cand, temp, last_hash>>
         ELSE /\ last_etag' = cur_etag
              /\ last_hash' = Hash(blob)
              /\ IF RunnerAccepts(blob)
                   THEN /\ temp' = File(blob)
                        /\ cand' = File(blob)
                        /\ cpc' = "backup"
                        /\ UNCHANGED <<cyc, polls>>
                   ELSE /\ temp' = NoFile
                        /\ polls' = Logged(PollRec(blob, TRUE, "rejected",
                                                          cyc.files,
                                                          <<active, last_good, NoFile>>))
                        /\ cpc' = "idle"
                        /\ cyc' = NoCycle
                        /\ UNCHANGED cand
  /\ UNCHANGED <<impl, recording, notified, blob, blob_etag, active, last_good, storevars>>

\* What the rollback of reload_config leaves at the active path, which
\* holds a when it starts and g is the last-good file: the copy of g, a part
\* of it, or a as it was.
Rollback(a, g) ==
  IF g = NoFile THEN {a} ELSE {g, Partial(Content(g)), a}

\* What a failing shutil.move leaves at the active path: the file as it
\* was, or a part of the temp file when the copy it falls back to after a
\* failed rename fails part-way.
FailedMove == {active, Partial(Content(temp))}

\* reload_config: copy2 of the active file to last-good.
ReloadConfig_backup(ok) ==
  /\ impl = "runner" /\ cpc = "backup"
  /\ IF ok
       THEN /\ last_good' = active
            /\ cpc' = "move"
            /\ UNCHANGED <<active, temp, cand, cyc, polls>>
       ELSE \E g \in {last_good, Partial(Content(active))} :
              \E a \in Rollback(active, g) : EndCycle("install_failed", a, g, temp)
  /\ UNCHANGED <<impl, recording, notified, blob, blob_etag, last_etag, last_hash, cur_etag, storevars>>

\* The outcome of the notification that follows the install of the poll
\* being finished: it answered (posted) or raised.
Notified(posted) == <<IF posted THEN "ok" ELSE "failed", Len(polls) + 1>>

\* ReloadConfig_move, but a reload request that fails raises out of the
\* install block and so reaches the rollback.
ReloadConfig_move_notify_unguarded(ok, posted) ==
  /\ impl = "runner" /\ cpc = "move"
  /\ IF ok /\ posted
       THEN /\ EndCycle("installed", temp, last_good, NoFile)
            /\ notified' = Notified(TRUE)
       ELSE /\ \E a \in Rollback(IF ok THEN temp ELSE active, last_good) :
                 EndCycle("install_failed", a, last_good, temp)
            /\ notified' = IF ok THEN Notified(FALSE) ELSE notified
  /\ UNCHANGED <<impl, recording, blob, blob_etag, last_etag, last_hash, cur_etag, storevars>>

\* reload_config: shutil.move of the temp file onto the active path, then
\* the reload request, whose failure is only logged.
ReloadConfig_move(ok, posted) ==
  /\ impl = "runner" /\ cpc = "move"
  /\ IF ok
       THEN /\ EndCycle("installed", temp, last_good, NoFile)
            /\ notified' = Notified(posted)
       ELSE /\ \E moved \in FailedMove : \E a \in Rollback(moved, last_good) :
                 EndCycle("install_failed", a, last_good, temp)
            /\ UNCHANGED notified
  /\ UNCHANGED <<impl, recording, blob, blob_etag, last_etag, last_hash, cur_etag, storevars>>

\* --- v2 -------------------------------------------------------------------
\* _download_and_activate up to the end of validation; initial is TRUE in
\* the call made by initialize, FALSE in the calls made by poll_loop.
V2_download_and_activate(initial, ok) ==
  /\ impl = "v2"
  /\ cpc = IF initial THEN "start" ELSE "idle"
  /\ ~initial => CanPoll
  /\ IF ~ok
       THEN IF initial
              THEN /\ cpc' = "init_failed"
                   /\ UNCHANGED <<cand, cyc, polls, temp>>
              ELSE /\ EndAtOnce(blob, FALSE, "fetch_failed")
       ELSE IF ~initial /\ Hash(blob) = last_hash
         THEN EndAtOnce(blob, TRUE, "unchanged")
         ELSE IF V2Accepts(blob)
           THEN /\ temp' = File(blob)
                /\ cand' = File(blob)
                /\ cyc' = [files |-> Files, initial |-> initial]
                /\ cpc' = "backup"
                /\ UNCHANGED polls
           ELSE /\ temp' = NoFile
                /\ cpc' = "idle"
                /\ UNCHANGED <<cand, cyc>>
                /\ polls' = IF initial THEN polls
                            ELSE Logged(PollRec(blob, TRUE, "rejected", Files,
                                                       <<active, last_good, NoFile>>))
  /\ UNCHANGED <<impl, recording, notified, blob, blob_etag, active, last_good, last_etag, last_hash,
                 cur_etag, storevars>>

\* _download_and_activate: the backup of an existing active file.
V2_backup(ok) ==
  /\ impl = "v2" /\ cpc = "backup"
  /\ IF active = NoFile
       THEN /\ cpc' = "replace"
            /\ UNCHANGED <<active, last_good, temp, cand, cyc, polls>>
       ELSE IF ok
         THEN /\ last_good' = active
              /\ cpc' = "replace"
              /\ UNCHANGED <<active, temp, cand, cyc, polls>>
         ELSE \E g \in {last_good, Partial(Content(active))} :
                EndCycle("install_failed", active, g, temp)
  /\ UNCHANGED <<impl, recording, notified, blob, blob_etag, last_etag, last_hash, cur_etag, storevars>>

\* V2_replace, but the fingerprint of the installed content is not kept.
V2_replace_forgets_hash(ok, posted) ==
  /\ impl = "v2" /\ cpc = "replace"
  /\ IF ok
       THEN EndCycle("installed", temp, last_good, NoFile)
       ELSE EndCycle("install_failed", active, last_good, temp)
  /\ UNCHANGED <<impl, recording, blob, blob_etag, last_etag, last_hash, cur_etag, storevars>>
  /\ notified' = IF ok /\ ~cyc.initial THEN Notified(posted) ELSE notified

\* V2_replace, but the fingerprint is assigned before the rename is tried.
V2_replace_hash_first(ok, posted) ==
  /\ impl = "v2" /\ cpc = "replace"
  /\ last_hash' = Hash(Content(cand))
  /\ IF ok
       THEN EndCycle("installed", temp, last_good, NoFile)
       ELSE EndCycle("install_failed", active, last_good, temp)
  /\ UNCHANGED <<impl, recording, blob, blob_etag, last_etag, cur_etag, storevars>>
  /\ notified' = IF ok /\ ~cyc.initial THEN Notified(posted) ELSE notified

\* V2_replace, but the temp file is copied onto the active path and stays.
V2_replace_keeps_temp(ok, posted) ==
  /\ impl = "v2" /\ cpc = "replace"
  /\ IF ok
       THEN /\ EndCycle("installed", temp, last_good, temp)
            /\ last_hash' = Hash(Content(cand))
       ELSE /\ EndCycle("install_failed", active, last_good, temp)
            /\ UNCHANGED last_hash
  /\ UNCHANGED <<impl, recording, blob, blob_etag, last_etag, cur_etag, storevars>>
  /\ notified' = IF ok /\ ~cyc.initial THEN Notified(posted) ELSE notified

\* _download_and_activate: os.replace and the assignment of _last_hash;
\* poll_loop: the on_change_callback, whose failure is only logged.
V2_replace(ok, posted) ==
  /\ impl = "v2" /\ cpc = "replace"
  /\ IF ok
       THEN /\ EndCycle("installed", temp, last_good, NoFile)
            /\ last_hash' = Hash(Content(cand))
       ELSE /\ EndCycle("install_failed", active, last_good, temp)
            /\ UNCHANGED last_hash
  /\ UNCHANGED <<impl, recording, blob, blob_etag, last_etag, cur_etag, storevars>>
  /\ notified' = IF ok /\ ~cyc.initial THEN Notified(posted) ELSE notified

\* --- v3 -------------------------------------------------------------------
\* sync_from_blob up to the write of the temp file.
V3_sync_from_blob(ok) ==
  /\ impl = "v3" /\ cpc = "idle" /\ CanPoll
  /\ IF ~ok
       THEN EndAtOnce(blob, FALSE, "fetch_failed")
       ELSE IF Hash(blob) = last_hash
         THEN EndAtOnce(blob, TRUE, "unchanged")
         ELSE IF V3Accepts(blob)
           THEN /\ temp' = File(blob)
                /\ cand' = File(blob)
                /\ cyc' = [files |-> Files, initial |-> FALSE]
                /\ cpc' = "backup"
                /\ UNCHANGED polls
           ELSE EndAtOnce(blob, TRUE, "rejected")
  /\ UNCHANGED <<impl, recording, notified, blob, blob_etag, active, last_good, last_etag, last_hash,
                 cur_etag, storevars>>

\* sync_from_blob: the copy of an existing active file to last-good.
V3_backup(ok) ==
  /\ impl = "v3" /\ cpc = "backup"
  /\ IF active = NoFile
       THEN /\ cpc' = "move"
            /\ UNCHANGED <<active, last_good, temp, cand, cyc, polls>>
       ELSE IF ok
         THEN /\ last_good' = active
              /\ cpc' = "move"
              /\ UNCHANGED <<active, temp, cand, cyc, polls>>
         ELSE \E g \in {last_good, Partial(Content(active))} :
                EndCycle("install_failed", active, g, temp)
  /\ UNCHANGED <<impl, recording, notified, blob, blob_etag, last_etag, last_hash, cur_etag, storevars>>

\* sync_from_blob: shutil.move and the assignment of last_hash.
V3_move(ok) ==
  /\ impl = "v3" /\ cpc = "move"
  /\ IF ok
       THEN /\ EndCycle("installed", temp, last_good, NoFile)
            /\ last_hash' = Hash(Content(cand))
       ELSE /\ EndCycle("install_failed", active, last_good, temp)
            /\ UNCHANGED last_hash
  /\ UNCHANGED <<impl, recording, notified, blob, blob_etag, last_etag, cur_etag, storevars>>

\* ------------------------------------------------------------------------
\* v4 and v5: BlobConfigManager.fetch_config, initial_config_fetch and
\* ConfigRefreshDaemon
\* ------------------------------------------------------------------------
FetchFaults == {"none", "download", "replace"}

\* BlobConfigManager.validate_config_file(path).
ValidateConfigFile(file) ==
  IF file = NoFile THEN FALSE
  ELSE LET data == yaml_safe_load(Content(file))
       IN /\ ~data.raises
          /\ data.kind = "mapping"
          /\ "model_list" \in data.keys
          /\ data.model_list.is_list

\* BlobConfigManager.fetch_config returns True: the download answered, the
\* bytes are YAML, and the temp file was written and renamed.
FetchSucceeds(fault) == fault = "none" /\ ~yaml_safe_load(d_blob).raises

\* The local file and the temp file after fetch_config.
FileAfterFetch(fault) == IF FetchSucceeds(fault) THEN File(d_blob) ELSE d_file

TempAfterFetch(fault) ==
  IF fault = "replace" /\ ~yaml_safe_load(d_blob).raises THEN File(d_blob) ELSE d_temp

\* The record of a fetch attempt (kind "boot") or refresh cycle ("refresh").
CycleRec(kind, t, fault) ==
  [kind |-> kind, tid |-> t, content |-> File(d_blob),
   fetched |-> FetchSucceeds(fault),
   valid |-> IF FetchSucceeds(fault) THEN "pending" ELSE "none",
   before |-> d_file, after |-> FileAfterFetch(fault)]

\* The latest record of thread t (0 for initial_config_fetch).
LatestOf(t) ==
  CHOOSE k \in 1..Len(d_cycles) :
    /\ d_cycles[k].tid = t
    /\ \A j \in 1..Len(d_cycles) : d_cycles[j].tid = t => j <= k

\* The history with the validation of the latest cycle of t filled in.
Validation(t, valid) ==
  IF \E k \in 1..Len(d_cycles) : d_cycles[k].tid = t
    THEN [d_cycles EXCEPT ![LatestOf(t)].valid = IF valid THEN "yes" ELSE "no"]
    ELSE d_cycles

\* The operator of the deployment uploads a new version of the blob.
DaemonBlobChange(d) ==
  /\ d_changes < MaxBlobChanges
  /\ d_blob' = d
  /\ d_changes' = d_changes + 1
  /\ UNCHANGED <<d_file, d_temp, d_boot, d_stop, d_pos, d_stats, d_cycles,
                 basevars, syncvars>>

\* initial_config_fetch: one call of fetch_config.
InitialConfigFetch_fetch(fault) ==
  /\ d_boot = "fetch"
  /\ recording => Len(d_cycles) < MaxPolls
  /\ d_file' = FileAfterFetch(fault)
  /\ d_temp' = TempAfterFetch(fault)
  /\ d_boot' = IF FetchSucceeds(fault) THEN "validate" ELSE "sleep"
  /\ d_cycles' = IF recording THEN Append(d_cycles, CycleRec("boot", 0, fault))
                 ELSE d_cycles
  /\ UNCHANGED <<d_blob, d_changes, d_stop, d_pos, d_stats, basevars, syncvars>>

\* InitialConfigFetch_validate, but it returns after any fetch that succeeded.
InitialConfigFetch_validate_skipped ==
  /\ d_boot = "validate"
  /\ d_boot' = "returned"
  /\ d_cycles' = Validation(0, ValidateConfigFile(d_file))
  /\ UNCHANGED <<d_blob, d_changes, d_file, d_temp, d_stop, d_pos, d_stats,
                 basevars, syncvars>>

\* initial_config_fetch: validate_config_file, then return True or sleep.
InitialConfigFetch_validate ==
  /\ d_boot = "validate"
  /\ d_boot' = IF ValidateConfigFile(d_file) THEN "returned" ELSE "sleep"
  /\ d_cycles' = Validation(0, ValidateConfigFile(d_file))
  /\ UNCHANGED <<d_blob, d_changes, d_file, d_temp, d_stop, d_pos, d_stats,
                 basevars, syncvars>>

\* initial_config_fetch: time.sleep(refresh_interval) returns.
InitialConfigFetch_retry ==
  /\ d_boot = "sleep"
  /\ d_boot' = "fetch"
  /\ UNCHANGED <<d_blob, d_changes, d_file, d_temp, d_stop, d_pos, d_stats,
                 d_cycles, basevars, syncvars>>

\* Thread t has been created and its loop has not exited.
Alive(t) == d_pos[t] \notin {"none", "exited"}

\* The threads created so far; self._thread is the latest of them.
Created == {t \in Tids : d_pos[t] # "none"}

ThreadAlive == \E t \in Created : (\A other \in Created : other <= t) /\ Alive(t)

\* ConfigRefreshDaemon.start(), but without the test for a running thread.
ConfigRefreshDaemon_start_unguarded ==
  /\ d_boot = "returned"
  /\ \E t \in Tids :
       /\ d_pos[t] = "none"
       /\ \A other \in Tids : other < t => d_pos[other] # "none"
       /\ d_pos' = [d_pos EXCEPT ![t] = "test"]
  /\ UNCHANGED <<d_blob, d_changes, d_file, d_temp, d_boot, d_stop, d_stats,
                 d_cycles, basevars, syncvars>>

\* ConfigRefreshDaemon.start().
ConfigRefreshDaemon_start ==
  /\ d_boot = "returned"
  /\ IF ThreadAlive
       THEN UNCHANGED d_pos
       ELSE \E t \in Tids :
              /\ d_pos[t] = "none"
              /\ \A other \in Tids : other < t => d_pos[other] # "none"
              /\ d_pos' = [d_pos EXCEPT ![t] = "test"]
  /\ UNCHANGED <<d_blob, d_changes, d_file, d_temp, d_boot, d_stop, d_stats,
                 d_cycles, basevars, syncvars>>

\* ConfigRefreshDaemon.stop().
ConfigRefreshDaemon_stop ==
  /\ d_boot = "returned"
  /\ d_stop' = TRUE
  /\ UNCHANGED <<d_blob, d_changes, d_file, d_temp, d_boot, d_pos, d_stats,
                 d_cycles, basevars, syncvars>>

\* The while loop without the test of the stop event.
RefreshLoop_test_ignores_stop(t) ==
  /\ d_pos[t] = "test"
  /\ d_pos' = [d_pos EXCEPT ![t] = "fetch"]
  /\ UNCHANGED <<d_blob, d_changes, d_file, d_temp, d_boot, d_stop, d_stats,
                 d_cycles, basevars, syncvars>>

\* _refresh_loop: the test of the while loop.
RefreshLoop_test(t) ==
  /\ d_pos[t] = "test"
  /\ d_pos' = [d_pos EXCEPT ![t] = IF d_stop THEN "exited" ELSE "fetch"]
  /\ UNCHANGED <<d_blob, d_changes, d_file, d_temp, d_boot, d_stop, d_stats,
                 d_cycles, basevars, syncvars>>

\* _refresh_loop: fetch_config, and the counters when it fails.
RefreshLoop_fetch(t, fault) ==
  /\ d_pos[t] = "fetch"
  /\ Len(d_cycles) < MaxPolls
  /\ d_file' = FileAfterFetch(fault)
  /\ d_temp' = TempAfterFetch(fault)
  /\ d_cycles' = Append(d_cycles, CycleRec("refresh", t, fault))
  /\ IF FetchSucceeds(fault)
       THEN /\ d_pos' = [d_pos EXCEPT ![t] = "validate"]
            /\ UNCHANGED d_stats
       ELSE /\ d_pos' = [d_pos EXCEPT ![t] = "wait"]
            /\ d_stats' = [d_stats EXCEPT !.total_failures = @ + 1,
                                          !.last_refresh_success = FALSE]
  /\ UNCHANGED <<d_blob, d_changes, d_boot, d_stop, basevars, syncvars>>

\* _refresh_loop: validate_config_file and the counters.
RefreshLoop_validate(t) ==
  /\ d_pos[t] = "validate"
  /\ d_pos' = [d_pos EXCEPT ![t] = "wait"]
  /\ d_cycles' = Validation(t, ValidateConfigFile(d_file))
  /\ d_stats' = IF ValidateConfigFile(d_file)
                  THEN [d_stats EXCEPT !.total_refreshes = @ + 1,
                                       !.last_refresh_success = TRUE]
                  ELSE [d_stats EXCEPT !.total_failures = @ + 1]
  /\ UNCHANGED <<d_blob, d_changes, d_file, d_temp, d_boot, d_stop, basevars,
                 syncvars>>

\* _refresh_loop: _stop_event.wait(refresh_interval) returns.
RefreshLoop_wait(t) ==
  /\ d_pos[t] = "wait"
  /\ d_pos' = [d_pos EXCEPT ![t] = "test"]
  /\ UNCHANGED <<d_blob, d_changes, d_file, d_temp, d_boot, d_stop, d_stats,
                 d_cycles, basevars, syncvars>>

\* ------------------------------------------------------------------------
\* The runner's reload loop as asyncio tasks: start_reload_loop, reload_loop
\* and stop_reload_loop. A task is suspended at one of its awaits: the sleep
\* of the loop, or inside a cycle the metadata probe, the download and the
\* reload request that follows an install.
\* ------------------------------------------------------------------------
InCycle == {"props", "download", "post"}

\* The task has been created and has neither returned nor been cancelled.
LoopRunning(t) == l_pos[t] \in {"sleep"} \cup InCycle

\* The end of a cycle: back to the test of  while self.running.
AfterCycle == IF l_running THEN "sleep" ELSE "done"

\* start_reload_loop: create_task(reload_loop()); the task sets running and
\* reaches its first sleep.
StartReloadLoop ==
  /\ \E t \in LTasks :
       /\ l_pos[t] = "none"
       /\ \A other \in LTasks : other < t => l_pos[other] # "none"
       /\ l_task' = t
       /\ l_pos' = [l_pos EXCEPT ![t] = "sleep"]
  /\ l_running' = TRUE
  /\ UNCHANGED <<l_cancel, l_cut, corevars, syncvars, daemonvars, credvars>>

\* stop_reload_loop: running = False and reload_task.cancel().
StopReloadLoop ==
  /\ l_task # 0
  /\ l_running' = FALSE
  /\ l_cancel' = [l_cancel EXCEPT ![l_task] = LoopRunning(l_task)]
  /\ UNCHANGED <<l_task, l_pos, l_cut, corevars, syncvars, daemonvars, credvars>>

\* The CancelledError reaches the task at the await it is suspended at. No
\* except clause of reload_loop, reload_config or check_for_updates catches
\* it (they catch Exception), so the task ends there.
Cancelled(t) ==
  /\ l_cancel[t]
  /\ LoopRunning(t)
  /\ l_pos' = [l_pos EXCEPT ![t] = "cancelled"]
  /\ l_cancel' = [l_cancel EXCEPT ![t] = FALSE]
  /\ l_cut' = IF l_pos[t] \in InCycle THEN l_cut \cup {<<t, l_pos[t]>>} ELSE l_cut
  /\ UNCHANGED <<l_running, l_task, corevars, syncvars, daemonvars, credvars>>

\* reload_loop: the sleep ends and reload_config starts a cycle.
ReloadLoop_wake(t) ==
  /\ l_pos[t] = "sleep" /\ ~l_cancel[t]
  /\ l_pos' = [l_pos EXCEPT ![t] = "props"]
  /\ UNCHANGED <<l_running, l_task, l_cancel, l_cut, corevars, syncvars,
                 daemonvars, credvars>>

\* check_for_updates: the metadata probe answers; the cycle ends there (a
\* failure or an etag match) or goes on to the download.
ReloadLoop_props(t, changed) ==
  /\ l_pos[t] = "props" /\ ~l_cancel[t]
  /\ l_pos' = [l_pos EXCEPT ![t] = IF changed THEN "download" ELSE AfterCycle]
  /\ UNCHANGED <<l_running, l_task, l_cancel, l_cut, corevars, syncvars,
                 daemonvars, credvars>>

\* check_for_updates: the download answers; reload_config validates and
\* installs without an await; after an install it sends the reload request.
ReloadLoop_download(t, installed) ==
  /\ l_pos[t] = "download" /\ ~l_cancel[t]
  /\ l_pos' = [l_pos EXCEPT ![t] = IF installed THEN "post" ELSE AfterCycle]
  /\ UNCHANGED <<l_running, l_task, l_cancel, l_cut, corevars, syncvars,
                 daemonvars, credvars>>

\* reload_config: the reload request answers or fails; the cycle ends.
ReloadLoop_post(t) ==
  /\ l_pos[t] = "post" /\ ~l_cancel[t]
  /\ l_pos' = [l_pos EXCEPT ![t] = AfterCycle]
  /\ UNCHANGED <<l_running, l_task, l_cancel, l_cut, corevars, syncvars,
                 daemonvars, credvars>>

\* ------------------------------------------------------------------------
\* The pool of credential handles of AzureTokenManager: _get_credential,
\* called by _fetch_token_from_mi on any thread, and close.
\* ------------------------------------------------------------------------
\* _get_credential, but a handle is created whether or not the pool holds one.
GetCredential_pool_always_creates(c) ==
  /\ cred_pc[c] = "locked"
  /\ LET i == cred_arg[c]
         h == <<i, cred_epoch, cred_made[i] + 1>>
     IN /\ credentials' = [credentials EXCEPT ![i] = h]
        /\ cred_made' = [cred_made EXCEPT ![i] = @ + 1]
        /\ cred_got' = [cred_got EXCEPT ![c] = h]
  /\ cred_lock' = "free"
  /\ cred_pc' = [cred_pc EXCEPT ![c] = "fetch"]
  /\ UNCHANGED <<cred_arg, cred_epoch, corevars, syncvars, daemonvars, loopvars>>

\* _fetch_token_from_mi calls _get_credential(client_id), which enters
\* with self.credentials_lock.
GetCredential_lock(c, i) ==
  /\ cred_pc[c] = "idle"
  /\ cred_lock = "free"
  /\ cred_lock' = c
  /\ cred_pc' = [cred_pc EXCEPT ![c] = "locked"]
  /\ cred_arg' = [cred_arg EXCEPT ![c] = i]
  /\ cred_got' = [cred_got EXCEPT ![c] = None]
  /\ UNCHANGED <<credentials, cred_made, cred_epoch, corevars, syncvars,
                 daemonvars, loopvars>>

\* _get_credential under the lock: the handle of the pool, created when the
\* pool has none for client_id; the lock is released on return.
GetCredential_pool(c) ==
  /\ cred_pc[c] = "locked"
  /\ LET i == cred_arg[c]
         h == <<i, cred_epoch, cred_made[i] + 1>>
     IN IF credentials[i] = None
          THEN /\ credentials' = [credentials EXCEPT ![i] = h]
               /\ cred_made' = [cred_made EXCEPT ![i] = @ + 1]
               /\ cred_got' = [cred_got EXCEPT ![c] = h]
          ELSE /\ cred_got' = [cred_got EXCEPT ![c] = credentials[i]]
               /\ UNCHANGED <<credentials, cred_made>>
  /\ cred_lock' = "free"
  /\ cred_pc' = [cred_pc EXCEPT ![c] = "fetch"]
  /\ UNCHANGED <<cred_arg, cred_epoch, corevars, syncvars, daemonvars, loopvars>>

\* _fetch_token_from_mi: credential.get_token answers or raises.
FetchTokenFromMi_return(c) ==
  /\ cred_pc[c] = "fetch"
  /\ cred_pc' = [cred_pc EXCEPT ![c] = "idle"]
  /\ UNCHANGED <<credentials, cred_lock, cred_arg, cred_got, cred_made, cred_epoch,
                 corevars, syncvars, daemonvars, loopvars>>

\* close: enters with self.credentials_lock.
Close_lock ==
  /\ cred_epoch < MaxCloses
  /\ cred_lock = "free"
  /\ cred_lock' = "close"
  /\ UNCHANGED <<credentials, cred_pc, cred_arg, cred_got, cred_made, cred_epoch,
                 corevars, syncvars, daemonvars, loopvars>>

\* close under the lock: every handle is closed and the pool is cleared.
Close_clear ==
  /\ cred_lock = "close"
  /\ credentials' = [i \in CredIdentities |-> None]
  /\ cred_made' = [i \in CredIdentities |-> 0]
  /\ cred_epoch' = cred_epoch + 1
  /\ cred_lock' = "free"
  /\ UNCHANGED <<cred_pc, cred_arg, cred_got, corevars, syncvars, daemonvars, loopvars>>

\* ------------------------------------------------------------------------
\* Specifications
\* ------------------------------------------------------------------------
\* The token manager under concurrent get_token calls.
Next ==
  \/ \E p \in MainProcs, host \in BOOLEAN : Initialize(p, host)
  \/ \E c \in Callers, i \in Identities : get_token(c, i)
  \/ \E c \in Callers : Setnx(c)
  \/ \E c \in Callers : Read2(c)
  \/ \E c \in Callers : Read3(c)
  \/ \E c \in Callers, d \in Lifetimes : ProviderReturns(c, d)
  \/ \E c \in Callers : ProviderFails(c)
  \/ \E c \in Callers : Release(c)
  \/ \E s \in TickSteps : Tick(s)
  \/ RemoteFails
  \/ RemoteRecovers
  \/ \E p \in MainProcs : Crash(p)

Spec == Init /\ [][Next]_vars

\* The token manager while the remote store answers every call: a burst
\* of callers, in any processes, with the store available throughout.
InitUp == Init /\ remoteUp

NextUp ==
  \/ \E p \in Procs : Initialize(p, TRUE)
  \/ \E c \in AllCallers, i \in Identities : get_token(c, i)
  \/ \E c \in AllCallers : Setnx(c)
  \/ \E c \in AllCallers : Read2(c)
  \/ \E c \in AllCallers : Read3(c)
  \/ \E c \in AllCallers, d \in Lifetimes : ProviderReturns(c, d)
  \/ \E c \in AllCallers : ProviderFails(c)
  \/ \E c \in AllCallers : Release(c)
  \/ \E s \in TickSteps : Tick(s)
  \/ \E p \in Procs : Crash(p)

SpecUp == InitUp /\ [][NextUp]_vars

\* The token manager called through the synchronous wrapper.
NextSync ==
  \/ \E p \in MainProcs, host \in BOOLEAN : Initialize(p, host)
  \/ \E c \in SyncCallers, i \in Identities : get_token_sync(c, i)
  \/ \E c \in SyncCallers : get_token_sync_no_loop(c)
  \/ \E c \in Callers \ SyncCallers, i \in Identities : get_token(c, i)
  \/ \E c \in Callers : SyncTimeout(c)
  \/ \E c \in Callers : Setnx(c)
  \/ \E c \in Callers : Read2(c)
  \/ \E c \in Callers : Read3(c)
  \/ \E c \in Callers, d \in Lifetimes : ProviderReturns(c, d)
  \/ \E c \in Callers : ProviderFails(c)
  \/ \E c \in Callers : Release(c)
  \/ \E s \in TickSteps : Tick(s)
  \/ RemoteFails
  \/ RemoteRecovers

SpecSync == Init /\ [][NextSync]_vars

\* The store wrappers used directly.
NextKV ==
  \/ \E p \in KvProcs, host \in BOOLEAN : Initialize(p, host)
  \/ \E p \in KvProcs, k \in KvKeys : KvGet(p, k)
  \/ \E p \in KvProcs, k \in KvKeys, t \in KvTtls, v \in KvValues : KvSetex(p, k, t, v)
  \/ \E p \in KvProcs, k \in KvKeys, v \in KvValues : KvSetnx(p, k, v)
  \/ \E p \in KvProcs, k \in KvKeys : KvDelete(p, k)
  \/ \E s \in TickSteps : Tick(s)
  \/ RemoteFails
  \/ RemoteRecovers

SpecKV == Init /\ [][NextKV]_vars

NextRR ==
  \/ \E enabled \in BOOLEAN : ResilientRedisClient_init(enabled)
  \/ \E k \in KvKeys : RRGet(k)
  \/ \E k \in KvKeys, t \in KvTtls, v \in KvValues : RRSet(k, v, t)
  \/ \E k \in KvKeys : RRDelete(k)
  \/ \E s \in TickSteps : Tick(s)
  \/ RemoteFails
  \/ RemoteRecovers

SpecRR == Init /\ [][NextRR]_vars

\* The set and get of both clients over the same remote store.
NextStore ==
  \/ \E p \in KvProcs, host \in BOOLEAN : Initialize(p, host)
  \/ \E p \in KvProcs, k \in KvKeys : KvGet(p, k)
  \/ \E p \in KvProcs, k \in KvKeys, t \in KvTtls, v \in KvValues : KvSetex(p, k, t, v)
  \/ \E enabled \in BOOLEAN : ResilientRedisClient_init(enabled)
  \/ \E k \in KvKeys : RRGet(k)
  \/ \E k \in KvKeys, t \in KvTtls, v \in KvValues : RRSet(k, v, t)
  \/ \E s \in TickSteps : Tick(s)
  \/ RemoteFails
  \/ RemoteRecovers

SpecStore == Init /\ [][NextStore]_vars

\* The TTL computation over every expiry from 61 s to the maximum.
InitTTL ==
  /\ InitCommon
  /\ ttl_in \in Sec(61)..Sec(MaxExpirySeconds)

SpecTTL == InitTTL /\ [][TtlCompute]_vars

\* The configuration synchronizers, one of them chosen at the start.
InitConfig ==
  /\ InitStores
  /\ ttl_in = 0
  /\ \E i \in Impls, b \in PollDocs : CfgInit(i, b)

NextConfig ==
  \/ \E d \in PollDocs : BlobChange(d)
  \/ \E ok \in BOOLEAN : DownloadInitialConfig_write(ok)
  \/ \E ok \in BOOLEAN : DownloadInitialConfig_copy(ok)
  \/ \E ok \in BOOLEAN : ConfigManager_initialize(ok)
  \/ \E ok \in BOOLEAN : CheckForUpdates_props(ok)
  \/ \E ok \in BOOLEAN : CheckForUpdates_download(ok)
  \/ \E ok \in BOOLEAN : ReloadConfig_backup(ok)
  \/ \E ok \in BOOLEAN : ReloadConfig_move(ok, TRUE)
  \/ \E initial \in BOOLEAN, ok \in BOOLEAN : V2_download_and_activate(initial, ok)
  \/ \E ok \in BOOLEAN : V2_backup(ok)
  \/ \E ok \in BOOLEAN : V2_replace(ok, TRUE)
  \/ \E ok \in BOOLEAN : V3_sync_from_blob(ok)
  \/ \E ok \in BOOLEAN : V3_backup(ok)
  \/ \E ok \in BOOLEAN : V3_move(ok)

SpecConfig == InitConfig /\ [][NextConfig]_vars

\* The runner and v2 with a notification that can fail.
InitNotify ==
  /\ InitStores
  /\ ttl_in = 0
  /\ \E i \in {"runner", "v2"}, b \in PollDocs : CfgInit(i, b)

NextNotify ==
  \/ \E d \in PollDocs : BlobChange(d)
  \/ \E ok \in BOOLEAN : DownloadInitialConfig_write(ok)
  \/ \E ok \in BOOLEAN : DownloadInitialConfig_copy(ok)
  \/ \E ok \in BOOLEAN : ConfigManager_initialize(ok)
  \/ \E ok \in BOOLEAN : CheckForUpdates_props(ok)
  \/ \E ok \in BOOLEAN : CheckForUpdates_download(ok)
  \/ \E ok \in BOOLEAN : ReloadConfig_backup(ok)
  \/ \E ok \in BOOLEAN, posted \in BOOLEAN : ReloadConfig_move(ok, posted)
  \/ \E initial \in BOOLEAN, ok \in BOOLEAN : V2_download_and_activate(initial, ok)
  \/ \E ok \in BOOLEAN : V2_backup(ok)
  \/ \E ok \in BOOLEAN, posted \in BOOLEAN : V2_replace(ok, posted)

SpecNotify == InitNotify /\ [][NextNotify]_vars

\* v4 and v5: initial_config_fetch, then the refresh daemon.
InitDaemon ==
  /\ InitStores
  /\ ttl_in = 0
  /\ SyncInit("none", "D1")
  /\ recording = TRUE
  /\ \E b \in PollDocs : DaemonInit(b)
  /\ LoopInit
  /\ CredInit

NextDaemon ==
  \/ \E d \in PollDocs : DaemonBlobChange(d)
  \/ \E fault \in FetchFaults : InitialConfigFetch_fetch(fault)
  \/ InitialConfigFetch_validate
  \/ InitialConfigFetch_retry
  \/ ConfigRefreshDaemon_start
  \/ ConfigRefreshDaemon_stop
  \/ \E t \in Tids : RefreshLoop_test(t)
  \/ \E t \in Tids, fault \in FetchFaults : RefreshLoop_fetch(t, fault)
  \/ \E t \in Tids : RefreshLoop_validate(t)
  \/ \E t \in Tids : RefreshLoop_wait(t)

SpecDaemon == InitDaemon /\ [][NextDaemon]_vars

\* initial_config_fetch alone, with no bound on its attempts: every step of
\* it is eventually taken, and a download that is tried again and again
\* eventually answers.
InitBoot ==
  /\ InitStores
  /\ ttl_in = 0
  /\ SyncInit("none", "D1")
  /\ recording = FALSE
  /\ \E b \in PollDocs : DaemonInit(b)
  /\ LoopInit
  /\ CredInit

NextBoot ==
  \/ \E d \in PollDocs : DaemonBlobChange(d)
  \/ \E fault \in FetchFaults : InitialConfigFetch_fetch(fault)
  \/ InitialConfigFetch_validate
  \/ InitialConfigFetch_retry

SpecBootFair ==
  /\ InitBoot
  /\ [][NextBoot]_vars
  /\ WF_vars(InitialConfigFetch_validate)
  /\ WF_vars(InitialConfigFetch_retry)
  /\ WF_vars(\E fault \in FetchFaults : InitialConfigFetch_fetch(fault))
  /\ SF_vars(InitialConfigFetch_fetch("none"))

\* The reload loop of the runner: its tasks, started and stopped.
NextLoop ==
  \/ StartReloadLoop
  \/ StopReloadLoop
  \/ \E t \in LTasks : Cancelled(t)
  \/ \E t \in LTasks : ReloadLoop_wake(t)
  \/ \E t \in LTasks, changed \in BOOLEAN : ReloadLoop_props(t, changed)
  \/ \E t \in LTasks, installed \in BOOLEAN : ReloadLoop_download(t, installed)
  \/ \E t \in LTasks : ReloadLoop_post(t)

\* The runner polling a blob that takes every shape of document; the
\* history of polls is not recorded.
InitValidate ==
  /\ InitStores
  /\ ttl_in = 0
  /\ SyncInit("runner", "D1")
  /\ recording = FALSE
  /\ DaemonInit("D1")
  /\ LoopInit
  /\ CredInit

NextValidate ==
  \/ \E d \in ValidatorDocs : BlobChange(d)
  \/ \E ok \in BOOLEAN : DownloadInitialConfig_write(ok)
  \/ \E ok \in BOOLEAN : DownloadInitialConfig_copy(ok)
  \/ \E ok \in BOOLEAN : ConfigManager_initialize(ok)
  \/ \E ok \in BOOLEAN : CheckForUpdates_props(ok)
  \/ \E ok \in BOOLEAN : CheckForUpdates_download(ok)
  \/ \E ok \in BOOLEAN : ReloadConfig_backup(ok)
  \/ \E ok \in BOOLEAN : ReloadConfig_move(ok, TRUE)

SpecValidate == InitValidate /\ [][NextValidate]_vars

SpecLoop == Init /\ [][NextLoop]_vars

\* The credential pool under threads that fetch tokens, and close.
NextCred ==
  \/ \E c \in CredThreads, i \in CredIdentities : GetCredential_lock(c, i)
  \/ \E c \in CredThreads : GetCredential_pool(c)
  \/ \E c \in CredThreads : FetchTokenFromMi_return(c)
  \/ Close_lock
  \/ Close_clear

SpecCred == Init /\ [][NextCred]_vars

\* The runner polling for ever: initialize, then reload_loop, whose every
\* sleep ends and whose every await answers, and answers without a failure
\* again and again. The history of polls is not recorded.
InitRunnerFair ==
  /\ InitStores
  /\ ttl_in = 0
  /\ \E b \in PollDocs : SyncInit("runner", b)
  /\ recording = FALSE
  /\ DaemonInit("D1")
  /\ LoopInit
  /\ CredInit

NextRunnerFair ==
  \/ \E d \in PollDocs : BlobChange(d)
  \/ \E ok \in BOOLEAN : DownloadInitialConfig_write(ok)
  \/ \E ok \in BOOLEAN : DownloadInitialConfig_copy(ok)
  \/ \E ok \in BOOLEAN : ConfigManager_initialize(ok)
  \/ \E ok \in BOOLEAN : CheckForUpdates_props(ok)
  \/ \E ok \in BOOLEAN : CheckForUpdates_download(ok)
  \/ \E ok \in BOOLEAN : ReloadConfig_backup(ok)
  \/ \E ok \in BOOLEAN, posted \in BOOLEAN : ReloadConfig_move(ok, posted)

SpecRunnerFair ==
  /\ InitRunnerFair
  /\ [][NextRunnerFair]_vars
  /\ WF_vars(\E ok \in BOOLEAN : DownloadInitialConfig_write(ok))
  /\ WF_vars(\E ok \in BOOLEAN : DownloadInitialConfig_copy(ok))
  /\ WF_vars(\E ok \in BOOLEAN : ConfigManager_initialize(ok))
  /\ WF_vars(\E ok \in BOOLEAN : CheckForUpdates_props(ok))
  /\ WF_vars(\E ok \in BOOLEAN : CheckForUpdates_download(ok))
  /\ WF_vars(\E ok \in BOOLEAN : ReloadConfig_backup(ok))
  /\ WF_vars(\E ok \in BOOLEAN, posted \in BOOLEAN : ReloadConfig_move(ok, posted))
  /\ SF_vars(CheckForUpdates_props(TRUE))
  /\ SF_vars(CheckForUpdates_download(TRUE))
  /\ SF_vars(ReloadConfig_backup(TRUE))
  /\ SF_vars(\E posted \in BOOLEAN : ReloadConfig_move(TRUE, posted))

\* ------------------------------------------------------------------------
\* Properties
\* ------------------------------------------------------------------------
Finished(c) == pc[c] \in {"done", "failed"}
Fetched(c) == served[c] = "provider"
LockHolder(c) == lock_acquired[c] /\ pc[c] \in {"read3", "fetching", "release"}

\* The callers of identity i whose first reads all missed before any of
\* them went further.
Burst(i) == {c \in AllCallers : simul[c] /\ client_id[c] = i}

\* The unexpired token the cache holds for identity i as process p reads it.
CachedToken(p, i) ==
  LET remote == redisStore[_cache_key(i)]
      local == memory_cache[p][_cache_key(i)]
  IN IF available[p] /\ remoteUp
     THEN IF remote # None /\ (remote[2] = NoExpiry \/ now < remote[2])
          THEN remote[1] ELSE None
     ELSE IF local # None /\ now < local[2] THEN local[1] ELSE None

\* C1: when N >= 2 callers of get_token(I) all miss the cache together while
\* the remote store is available, fewer than N provider fetches are made
\* for the burst.
\* Stated for the bursts in which every caller ended with a token, so that
\* no failed provider call counts.
C1_BurstFetchesBelowN ==
  \A i \in Identities :
    (Cardinality(Burst(i)) >= 2 /\ \A c \in Burst(i) : pc[c] = "done")
      => Cardinality({c \in Burst(i) : Fetched(c)}) < Cardinality(Burst(i))

\* C2: while an unexpired cached token exists for I, every get_token(I) call
\* that reads the cache returns exactly that token, and no provider call is
\* issued.
C2_ValidTokenServed ==
  [][\A c \in AllCallers :
       /\ (pc[c] \in {"idle", "sleep", "read3"} /\ pc'[c] \notin {pc[c], "crashed"}
           /\ sync_out'[c] # "RuntimeError"
           /\ CachedToken(ProcOf[c], client_id'[c]) # None)
          => /\ result'[c] = CachedToken(ProcOf[c], client_id'[c])
             /\ pc'[c] \in {"done", "release"}
             /\ served'[c] \in {"read1", "read2", "read3"}
       /\ (pc'[c] = "fetching" /\ pc[c] # "fetching")
          => CachedToken(ProcOf[c], client_id[c]) = None]_vars

C2_Witness ==
  \E c, d \in AllCallers :
    /\ c # d
    /\ pc[c] = "done" /\ served[c] = "read1"
    /\ pc[d] = "done" /\ served[d] = "provider"
    /\ result[c] = result[d]

C4_ServedWithBuffer ==
  [][\A c \in AllCallers :
       (served[c] = "none" /\ served'[c] \in {"read1", "read2", "read3"})
         => now + Sec(TOKEN_BUFFER_SECONDS) <= ExpiresOn(result'[c])]_vars

\* C5 as claimed: for an expiry between 61 s and the maximum from now,
\* floor <= ttl <= (expiry - now) - buffer.
C5_TtlWithinBuffer ==
  ttl_out # -1
    => /\ MinTtlSeconds <= ttl_out
       /\ Sec(ttl_out) <= ttl_in - Sec(TOKEN_BUFFER_SECONDS)

\* C5 as amended: the TTL is never below the floor; it is at most
\* (expiry - now) - buffer when the expiry is at least buffer + floor
\* away, and it is the floor itself for every nearer expiry.
C5_TtlFloorOrBuffer ==
  ttl_out # -1
    => /\ MinTtlSeconds <= ttl_out
       /\ ttl_in >= Sec(TOKEN_BUFFER_SECONDS + MinTtlSeconds)
            => /\ Sec(ttl_out) <= ttl_in - Sec(TOKEN_BUFFER_SECONDS)
               /\ Sec(ttl_out) > ttl_in - Sec(TOKEN_BUFFER_SECONDS) - Sec(1)
       /\ ttl_in < Sec(TOKEN_BUFFER_SECONDS + MinTtlSeconds)
            => ttl_out = MinTtlSeconds

C5_Witness ==
  /\ ttl_out > MinTtlSeconds
  /\ ttl_in > Sec(TOKEN_BUFFER_SECONDS + MinTtlSeconds)
  /\ ttl_in % TicksPerSecond = 1

\* C6: a lock record left by a caller that crashed while holding it is
\* gone once one lock TTL has passed, so that a later setnx succeeds.
C6_CrashedLockExpires ==
  [][\A c \in AllCallers :
       (/\ pc[c] = "crashed" /\ lock_acquired[c]
        /\ \A d \in AllCallers : ~LockHolder(d)
        /\ now' >= now + Sec(MemoryLockSeconds))
         => ~Live(redisStore'[_lock_key(client_id[c])], now')]_vars

\* The provider call of c raised.
ProviderFailed(c) ==
  served[c] = "provider" /\ result[c] = None /\ pc[c] \notin {"fetching", "crashed"}

\* C7: when the provider call fails, get_token ends with the provider's
\* error, also behind get_token_sync; a call that returns, returns a token
\* and never an empty one.
C7_ProviderErrorPropagates ==
  \A c \in AllCallers :
    /\ (ProviderFailed(c) /\ pc[c] # "release")
         => pc[c] = "failed" /\ sync_out[c] \in {"none", "raised", "TimeoutError"}
    /\ pc[c] = "done" => result[c] # None /\ Len(result[c]) = 2
    /\ sync_out[c] = "returned" => pc[c] = "done" /\ result[c] # None
    /\ sync_out[c] = "raised" => pc[c] = "failed" /\ ProviderFailed(c)

C7_Witness ==
  \E c \in AllCallers :
    /\ ProviderFailed(c) /\ pc[c] = "failed"
    /\ lock_acquired[c] /\ sync_out[c] = "raised"

\* What the fallback map of the client of the last operation holds under
\* the key of that operation.
LastEntry == memory_cache[kv_last.client][kv_last.key]

\* C8: no RedisClient operation raises when the remote store fails; the
\* call is answered from the in-process fallback map.
C8_NoRaiseOnRemoteFailure ==
  kv_last.client \in Procs
    => /\ ~kv_last.raised
       /\ kv_last.remote_error
            => /\ kv_last.src = "memory"
               /\ kv_last.op = "get"
                    => \/ kv_last.ret = None /\ LastEntry = None
                       \/ /\ LastEntry # None
                          /\ kv_last.ret = LastEntry[1]
                          /\ kv_last.at < LastEntry[2]
               /\ kv_last.op = "setex"
                    => LastEntry = <<kv_last.value, kv_last.at + Sec(kv_last.seconds)>>
               /\ kv_last.op = "setnx"
                    => /\ LastEntry # None
                       /\ kv_last.at < LastEntry[2]
                       /\ kv_last.ret = <<TRUE>>
                            => LastEntry = <<kv_last.value,
                                             kv_last.at + Sec(MemoryLockSeconds)>>
               /\ kv_last.op = "delete" => LastEntry = None

C8_Witness ==
  /\ kv_last.client \in Procs
  /\ kv_last.remote_error
  /\ kv_last.op = "get"
  /\ kv_last.ret # None

\* C9: after a remote error in an operation the availability flag of the
\* client is down, and it is up again once an operation was answered by
\* the remote store.
C9_FlagFollowsRemote ==
  kv_last.client \in Procs
    => /\ kv_last.remote_error => ~available[kv_last.client]
       /\ kv_last.src = "remote" => available[kv_last.client]

\* The availability flag of the client of the last operation, when that
\* operation ran and now; they differ only when initialize() ran in between.
FlagAtLast == kv_last.src = "remote" \/ kv_last.remote_error

FlagNow ==
  IF kv_last.client \in Procs THEN available[kv_last.client] ELSE ~rr_using_fallback

\* C10: set(key, value, ttl) with ttl > 0 immediately followed by get(key)
\* on the same client, with no other call on the client in between and the
\* ttl not yet over, returns value, whatever the remote store's availability
\* does in between.
C10_SetThenGet ==
  [][(AfterSet(kv_last'.client, kv_last'.op, kv_last'.key) /\ FlagNow = FlagAtLast)
       => kv_last'.ret = kv_last.value]_vars

\* C10 as the code has it: the get returns value when it is answered by
\* what answered the set, the remote store both times or the in-process
\* map both times.
C10_SetThenGetSameBacking ==
  (kv_last.set_src # "none" /\ kv_last.set_src = kv_last.src)
    => kv_last.ret = kv_last.set_value

C10_Witness ==
  /\ kv_last.set_src = "memory"
  /\ kv_last.src = "memory"
  /\ kv_last.remote_error
  /\ kv_last.ret = kv_last.set_value
  /\ kv_last.ret # None

\* C11 as claimed: setnx returns True exactly when the store held no
\* unexpired entry for the key right before the call, and of two setnx
\* calls on the same key at the same instant, the first of which created
\* it, the second returns False.
C11_SetnxCreatesOnce ==
  (kv_last.op = "setnx" /\ kv_last.client \in Procs)
    => /\ (kv_last.ret = <<TRUE>>) <=> (kv_last.before # "live")
       /\ (/\ kv_last.prev_setnx # "none"
           /\ FlagAtLast <=> (kv_last.prev_setnx \in {"remote", "fallback"}))
            => kv_last.ret = <<FALSE>>

\* C11 as the code has it: True exactly when the store that answers the
\* call held no unexpired entry; the second of two calls returns False when
\* the store that answered the first answers it too.
C11_SetnxCreatesOncePerStore ==
  (kv_last.op = "setnx" /\ kv_last.client \in Procs)
    => /\ (kv_last.ret = <<TRUE>>) <=> (kv_last.before # "live")
       /\ (/\ kv_last.prev_setnx # "none"
           /\ (kv_last.src = "remote") <=> (kv_last.prev_setnx = "remote"))
            => kv_last.ret = <<FALSE>>

C11_Witness ==
  /\ kv_last.op = "setnx"
  /\ kv_last.prev_setnx = "remote"
  /\ kv_last.src = "remote"
  /\ kv_last.ret = <<FALSE>>

\* C12: an entry of the fallback map whose expiry has passed is absent for
\* get and setnx: get returns None and removes it, setnx creates the key.
C12_ExpiredIsAbsent ==
  (kv_last.client \in Procs /\ kv_last.before = "expired")
    => /\ kv_last.src = "memory"
       /\ kv_last.op = "get" => kv_last.ret = None /\ LastEntry = None
       /\ kv_last.op = "setnx"
            => /\ kv_last.ret = <<TRUE>>
               /\ LastEntry = <<kv_last.value, kv_last.at + Sec(MemoryLockSeconds)>>

C12_Witness ==
  /\ kv_last.op = "get"
  /\ kv_last.before = "expired"
  /\ kv_last.ret = None

\* ------------------------------------------------------------------------
\* Configuration synchronization
\* ------------------------------------------------------------------------
\* A complete file whose content the synchronizer i accepts.
ValidFile(i, file) == Len(file) = 1 /\ Accepts(i, Content(file))

\* C13: in the runner the active configuration file, whenever it exists, is
\* a completely written document that passes the schema validation: neither
\* partially written nor unvalidated content is ever at the active path.
C13_ActiveAlwaysValid ==
  (impl = "runner" /\ active # NoFile) => ValidFile("runner", active)

\* The finished polls, by their position in the history.
PollIds == 1..Len(polls)

\* Poll k downloaded a candidate and took it to validation.
Validated(k) ==
  polls[k].downloaded /\ polls[k].outcome \notin {"unchanged", "fetch_failed"}

\* Poll k left the active file as it found it.
ActiveUntouched(k) == polls[k].after[1] = polls[k].before[1]

\* C14: in v2 and in the runner, a poll whose candidate document lacks the
\* model_list mapping is rejected by validation and leaves the active file's
\* content unchanged; it is not installed.
C14_MissingModelListRejected ==
  impl \in {"runner", "v2"} =>
    \A k \in PollIds :
      (Validated(k) /\ ~HasModelListMapping(Content(polls[k].content)))
        => (polls[k].outcome = "rejected" /\ ActiveUntouched(k))

\* Poll k failed in its fetch or in the validation of its candidate.
FailedCycle(k) == polls[k].outcome \in {"fetch_failed", "rejected"}

\* C15: a poll cycle whose fetch or validation fails leaves the active file
\* exactly as it was when the cycle started, neither deleted nor rewritten,
\* however many such cycles follow one another.
C15_FailedCycleKeepsActive ==
  \A k \in PollIds : FailedCycle(k) => ActiveUntouched(k)

\* A fetch failure and a rejected candidate, both met with an active file
\* in place.
C15_Witness ==
  /\ \E k \in PollIds :
       polls[k].outcome = "fetch_failed" /\ polls[k].before[1] # NoFile
  /\ \E k \in PollIds :
       polls[k].outcome = "rejected" /\ polls[k].before[1] # NoFile

\* Polls k and k+1 met the same remote content, which is valid; poll k
\* downloaded it and poll k+1 did not fail to fetch it.
SameValidContent(k) ==
  /\ polls[k].content = polls[k + 1].content
  /\ polls[k].downloaded
  /\ Accepts(impl, Content(polls[k].content))
  /\ polls[k].outcome # "fetch_failed"
  /\ polls[k + 1].outcome # "fetch_failed"

\* Poll k is a no-op: its content was not new and it changed none of the
\* active, last-good and temp files.
NoOpPoll(k) == polls[k].outcome = "unchanged" /\ polls[k].after = polls[k].before

\* C16 as stated: two consecutive polls that fetch byte-identical valid
\* content make exactly one install, and the second of them is a no-op.
C16_IdenticalPollsInstallOnce ==
  \A k \in 1..(Len(polls) - 1) :
    SameValidContent(k) =>
      /\ (polls[k].outcome = "installed") # (polls[k + 1].outcome = "installed")
      /\ NoOpPoll(k + 1)

\* C16, amended: two consecutive polls that fetch byte-identical valid
\* content install it at most once, and when the first of them installs it
\* the second is a no-op that changes none of the three files.
C16_IdenticalPollsInstallAtMostOnce ==
  \A k \in 1..(Len(polls) - 1) :
    SameValidContent(k) =>
      /\ ~(polls[k].outcome = "installed" /\ polls[k + 1].outcome = "installed")
      /\ polls[k].outcome = "installed" => NoOpPoll(k + 1)

\* A poll installed a document and the next poll, fetching the same
\* document, was a no-op.
C16_Witness ==
  \E k \in 1..(Len(polls) - 1) :
    /\ SameValidContent(k)
    /\ polls[k].outcome = "installed"
    /\ polls[k + 1].downloaded
    /\ NoOpPoll(k + 1)

\* Polls k, k+1 and k+2 fetched a valid document D, a document that the
\* validation rejected, and D again: poll k installed D, and poll k+2 met
\* no failure of the object store or of the file system.
GoodBadGood(k) ==
  /\ polls[k].outcome = "installed"
  /\ polls[k + 1].outcome = "rejected"
  /\ polls[k + 2].content = polls[k].content
  /\ polls[k + 2].outcome \notin {"fetch_failed", "install_failed"}

\* C17 as stated: of three consecutive polls that fetch D, a corrupt
\* document and D again, the first and the third install and the second
\* does not, and after the third the active file is D.
C17_ReinstallAfterCorrupt ==
  \A k \in 1..(Len(polls) - 2) :
    GoodBadGood(k) =>
      /\ polls[k + 2].outcome = "installed"
      /\ polls[k + 2].after[1] = polls[k].content

\* C17, amended: the second poll installs nothing and after the third the
\* active file is D; the runner installs D again on the third poll, while
\* v2 and v3, whose fingerprint is still that of D, make it a no-op.
C17_GoodContentNotPoisoned ==
  \A k \in 1..(Len(polls) - 2) :
    GoodBadGood(k) =>
      /\ polls[k + 1].after[1] = polls[k].content
      /\ polls[k + 2].after[1] = polls[k].content
      /\ impl = "runner" => polls[k + 2].outcome = "installed"
      /\ impl # "runner" => NoOpPoll(k + 2)

\* v2 has fetched D, a rejected document and D again.
C17_Witness ==
  /\ impl = "v2"
  /\ \E k \in 1..(Len(polls) - 2) : GoodBadGood(k) /\ polls[k + 2].downloaded

\* C18: in the runner, a poll that finds the remote content byte-identical
\* to a candidate that an earlier poll rejected downloads it and validates
\* it again (and so rejects it again); it is not skipped as unchanged.
C18_RejectedIsRevalidated ==
  impl = "runner" =>
    \A i \in PollIds : \A j \in PollIds :
      (/\ i < j
       /\ polls[i].outcome = "rejected"
       /\ polls[j].content = polls[i].content
       /\ polls[j].outcome # "fetch_failed")
        => (polls[j].downloaded /\ polls[j].outcome = "rejected")

\* The step renames a complete temp file onto the active path.
RenameSucceeds == cpc = "replace" /\ ValidFile("v2", temp) /\ active' = temp

\* C19: in v2 _last_hash changes only in the step whose rename of the temp
\* file onto the active file succeeds, so a cycle that fails in validation,
\* in the backup copy or in the rename leaves it as it was; and whenever
\* _last_hash is set it is the hash of the content of the active file.
C19_HashOnlyAfterRename ==
  /\ [](impl = "v2" /\ last_hash # None
          => (Len(active) = 1 /\ last_hash = Hash(Content(active))))
  /\ [][(impl = "v2" /\ last_hash' # last_hash)
          => (RenameSucceeds /\ last_hash' = Hash(Content(active')))]_vars

\* v2 has a fingerprint and has been through a cycle rejected by
\* validation and a cycle whose backup copy or rename failed.
C19_Witness ==
  /\ impl = "v2"
  /\ last_hash # None
  /\ \E k \in PollIds : polls[k].outcome = "rejected"
  /\ \E k \in PollIds :
       polls[k].outcome = "install_failed" /\ polls[k].before[1] # NoFile

\* The polls that installed their candidate.
Installs == {k \in PollIds : polls[k].outcome = "installed"}

\* The latest of them.
LatestInstall == CHOOSE k \in Installs : \A other \in Installs : other <= k

\* C20: in the runner, between cycles, a last-good file that exists holds a
\* complete document that passes validation and that was the active file
\* immediately before the latest install.
C20_LastGoodIsPreviousActive ==
  (impl = "runner" /\ cpc \in {"idle", "init_failed"} /\ last_good # NoFile) =>
    /\ ValidFile("runner", last_good)
    /\ Installs # {}
    /\ last_good = polls[LatestInstall].before[1]

\* C21: in the runner, a cycle whose backup copy or rename fails, a backup
\* copy that fails part-way included, leaves the active file with exactly
\* the content it had when the cycle started.
C21_InstallFailureKeepsActive ==
  impl = "runner" =>
    \A k \in PollIds : polls[k].outcome = "install_failed" => ActiveUntouched(k)

\* The latest finished poll is the one whose notification failed, and no
\* later cycle has started.
NotifyJustFailed ==
  /\ notified = <<"failed", Len(polls)>>
  /\ cpc = "idle"

\* C22: when the notification that follows an install fails (the reload
\* request of the runner, the on_change_callback of v2), the poll still
\* counts as an install, the active file is the installed document, the
\* last-applied fingerprint is that document's, the temp file is gone and
\* the loop is between cycles, ready for the next one.
C22_NotifyFailureKeepsInstall ==
  NotifyJustFailed =>
    /\ polls[Len(polls)].outcome = "installed"
    /\ active = polls[Len(polls)].content
    /\ last_hash = Hash(Content(active))
    /\ temp = NoFile

\* A notification failed after an install that replaced an earlier
\* active document.
C22_Witness ==
  /\ NotifyJustFailed
  /\ polls[Len(polls)].before[1] # NoFile
  /\ polls[Len(polls)].before[1] # active

\* C23 as stated: in v2 the temp file exists only inside a cycle, never
\* between cycles.
C23_TempOnlyInsideCycle ==
  (impl = "v2" /\ cpc = "idle") => temp = NoFile

\* Poll k is the latest poll that got as far as writing the temp file.
LatestTempWriter(k) ==
  /\ polls[k].outcome \in {"installed", "rejected", "install_failed"}
  /\ \A j \in PollIds : j > k => polls[j].outcome \in {"unchanged", "fetch_failed"}

\* C23, amended: in v2 the temp file does not exist after a cycle that
\* installed its candidate, nor after one that rejected it; between cycles
\* it exists only when the latest cycle that wrote it failed in the backup
\* copy or in the rename.
C23_NoTempAfterSuccess ==
  impl = "v2" =>
    /\ \A k \in PollIds :
         polls[k].outcome \in {"installed", "rejected"} => polls[k].after[3] = NoFile
    /\ (cpc = "idle" /\ temp # NoFile) =>
         \E k \in PollIds : LatestTempWriter(k) /\ polls[k].outcome = "install_failed"

\* A v2 cycle that found a temp file left by a failed install has installed
\* its candidate, and the temp file is gone.
C23_Witness ==
  /\ impl = "v2"
  /\ cpc = "idle"
  /\ temp = NoFile
  /\ \E k \in PollIds :
       /\ polls[k].outcome = "installed"
       /\ polls[k].before[3] # NoFile
       /\ k = Len(polls)

\* ------------------------------------------------------------------------
\* v4 and v5: bootstrap and refresh daemon
\* ------------------------------------------------------------------------
\* The documents that validate_config_file accepts.
DaemonValidDocs == {d \in PollDocs : ValidateConfigFile(File(d))}

\* C24: initial_config_fetch has returned only when the local file holds a
\* fetched document that validate_config_file accepts; it retries without
\* limit, so when the object store ends up serving a valid document and
\* downloads go on being tried until one answers, it eventually returns.
C24_BootstrapReturnsValid ==
  /\ [](d_boot = "returned" => ValidateConfigFile(d_file))
  /\ \A d \in DaemonValidDocs : <>[](d_blob = d) => <>(d_boot = "returned")

\* initial_config_fetch has returned after an attempt that failed in the
\* rename and after the blob was replaced.
C24_Witness ==
  /\ d_boot = "returned"
  /\ d_temp # NoFile
  /\ d_changes > 0

\* C28: after a refresh cycle of the daemon in which validate_config_file
\* rejects the fetched document, the local config file holds what it held
\* before the cycle.
C28_RejectedKeepsPrevious ==
  \A k \in 1..Len(d_cycles) :
    (d_cycles[k].kind = "refresh" /\ d_cycles[k].valid = "no")
      => d_cycles[k].after = d_cycles[k].before

\* C25: poll cycles never overlap: at any time at most one reload loop of the
\* runner is running and at most one refresh thread of the daemon is alive,
\* however often start_reload_loop and start() are called.
C25_OneLoopAtATime ==
  /\ Cardinality({t \in LTasks : LoopRunning(t)}) <= 1
  /\ Cardinality({t \in Tids : Alive(t)}) <= 1

\* C26: stop_reload_loop is honoured between cycles only: no cycle of
\* reload_config that has started is ended by the cancellation at one of its
\* awaits.
C26_CancelOnlyBetweenCycles ==
  l_cut = {}

\* The documents the validator of the runner accepts.
RunnerValidDocs == {d \in PollDocs : RunnerAccepts(d)}

\* C27: when the remote document stops changing at a valid version while
\* the runner is polling, and fetches succeed again and again, the active
\* file eventually holds that document, whatever happened before.
C27_ActiveReachesRemote ==
  \A d \in RunnerValidDocs :
    <>[](blob = d /\ cpc # "init_failed") => <>(active = File(d))

\* C29: credential handles are pooled per identity: while the pool is not
\* cleared by close, at most one handle is created for an identity, and every
\* call of _get_credential for it returns the handle the pool holds.
C29_OneHandlePerIdentity ==
  /\ \A i \in CredIdentities : cred_made[i] <= 1
  /\ \A c \in CredThreads :
       (cred_pc[c] = "fetch" /\ cred_got[c][2] = cred_epoch)
         => cred_got[c] = credentials[cred_arg[c]]

\* After close cleared the pool, two threads fetch for the same identity with
\* the one handle created since, and another identity has a handle of its own.
C29_Witness ==
  /\ cred_pc["t1"] = "fetch" /\ cred_pc["t2"] = "fetch"
  /\ cred_arg["t1"] = "idA" /\ cred_arg["t2"] = "idA"
  /\ cred_got["t1"] = cred_got["t2"]
  /\ cred_got["t1"] = credentials["idA"]
  /\ cred_made["idA"] = 1
  /\ credentials["idB"] # None
  /\ cred_epoch = 1

\* A document that parses to a mapping containing a non-empty list
\* model_list whose every entry is a mapping with model_name and with a
\* mapping litellm_params that contains model.
WellFormed(content) ==
  LET data == yaml_safe_load(content)
      list == data.model_list
  IN /\ ~data.raises
     /\ data.kind = "mapping"
     /\ "model_list" \in data.keys
     /\ list.is_list
     /\ list.entries # <<>>
     /\ \A idx \in DOMAIN list.entries :
          LET model == list.entries[idx]
          IN /\ model.is_dict
             /\ {"model_name", "litellm_params"} \subseteq model.keys
             /\ model.params_is_dict
             /\ "model" \in model.params_keys

\* reload_config has received a candidate from check_for_updates and has
\* parsed and validated it.
CandidateJudged ==
  /\ impl = "runner" /\ cpc = "download"
  /\ last_hash' # last_hash

\* C30: the runner accepts a candidate iff it is a well-formed document:
\* the validator accepts the remote document iff it is well formed; a cycle
\* of reload_config goes on to install its candidate iff it is well formed,
\* and otherwise ends with the active file as it was and no temp file; and
\* the move installs well-formed candidates only.
C30_AcceptedIffWellFormed ==
  /\ [](RunnerAccepts(blob) <=> WellFormed(blob))
  /\ [][CandidateJudged =>
          IF WellFormed(blob)
            THEN cpc' = "backup" /\ cand' = File(blob) /\ temp' = File(blob)
            ELSE cpc' = "idle" /\ active' = active /\ temp' = NoFile]_vars
  /\ [][(impl = "runner" /\ cpc = "move" /\ active' = temp /\ temp # active)
          => WellFormed(Content(temp))]_vars

\* The runner runs on D1, the blob became empty, and a cycle downloaded and
\* rejected the empty content.
C30_Witness ==
  /\ impl = "runner" /\ cpc = "idle"
  /\ blob = "Empty" /\ last_hash = Hash("Empty")
  /\ active = File("D1") /\ temp = NoFile

\* ------------------------------------------------------------------------
\* The lock of get_token
\* ------------------------------------------------------------------------
\* Process p finds an unexpired lock record for identity i in the remote
\* store or in its own fallback map.
LockRecord(p, i) ==
  \/ Live(redisStore[_lock_key(i)], now)
  \/ LET entry == memory_cache[p][_lock_key(i)]
     IN entry # None /\ now < entry[2]

\* No other call for the identity of c acquired the lock.
OnlyLocker(c) ==
  \A d \in AllCallers \ {c} : client_id[d] = client_id[c] => ~lock_acquired[d]

\* C31: when a get_token call that acquired the lock completes, with a token
\* or with the provider's error, the lock record is gone: the only call
\* that acquired the lock of an identity leaves no lock record behind.
C31_LockDeletedOnCompletion ==
  \A c \in AllCallers :
    (lock_acquired[c] /\ Finished(c) /\ OnlyLocker(c))
      => ~LockRecord(ProcOf[c], client_id[c])

\* C32: a get_token call sleeps at most once, for one backoff interval and
\* only when setnx did not acquire the lock; when the interval is over the
\* call can go on whatever the lock holder does, and it goes on to a cache
\* hit or to its own fetch, never to the lock or to a second sleep.
C32_OneBackoffAtMost ==
  /\ [](\A c \in AllCallers :
          (pc[c] = "sleep" /\ now >= wake[c]) => ENABLED Read2(c))
  /\ [][\A c \in AllCallers :
          /\ (pc'[c] = "sleep" /\ pc[c] # "sleep")
               => /\ pc[c] = "setnx" /\ ~lock_acquired'[c] /\ ~slept[c]
                  /\ wake'[c] = now + BackoffTicks
          /\ (pc[c] = "sleep" /\ pc'[c] \notin {"sleep", "crashed"})
               => /\ slept'[c]
                  /\ \/ pc'[c] = "done" /\ served'[c] = "read2"
                     \/ pc'[c] = "read3"
          /\ slept[c] => pc'[c] \notin {"setnx", "sleep"}]_vars

\* A caller that did not get the lock has slept once and is fetching by
\* itself, while the call that holds the lock has crashed without
\* releasing it.
C32_Witness ==
  \E c, d \in AllCallers :
    /\ pc[c] = "fetching" /\ slept[c] /\ ~lock_acquired[c]
    /\ pc[d] = "crashed" /\ lock_acquired[d]
    /\ client_id[c] = client_id[d]
    /\ redisStore[_lock_key(client_id[c])] # None

\* The step is the first read of a get_token call of c, and the cache holds
\* an unexpired token for its identity.
FirstReadHits(c) ==
  /\ pc[c] = "idle" /\ pc'[c] # "idle"
  /\ initialized[ProcOf[c]]
  /\ CachedToken(ProcOf[c], client_id'[c]) # None

\* C33: a get_token call whose first read hits the cache returns the token
\* at once: it makes no setnx and no delete on the lock key, and it leaves
\* every key of the remote store and of the fallback maps as it was.
C33_HitTouchesNothing ==
  [][\A c \in AllCallers :
       FirstReadHits(c)
         => /\ pc'[c] = "done" /\ served'[c] = "read1"
            /\ result'[c] = CachedToken(ProcOf[c], client_id'[c])
            /\ ~lock_acquired'[c]
            /\ redisStore' = redisStore
            /\ memory_cache' = memory_cache]_vars

\* A call was served by its first read from the fallback map, while the
\* remote store did not answer, and took no lock.
C33_Witness ==
  \E c \in AllCallers :
    /\ pc[c] = "done" /\ served[c] = "read1" /\ ~lock_acquired[c]
    /\ ~remoteUp
    /\ memory_cache[ProcOf[c]][_cache_key(client_id[c])] # None
    /\ result[c] = memory_cache[ProcOf[c]][_cache_key(client_id[c])][1]
    /\ ~LockRecord(ProcOf[c], client_id[c])

\* The entries of the cache key of identity i, in the remote store and in
\* every fallback map.
CacheEntries(i) ==
  <<redisStore[_cache_key(i)], [p \in Procs |-> memory_cache[p][_cache_key(i)]]>>

\* C34: the provider is called only right after the re-read of the cache in
\* the try block; when that re-read finds a token, the call returns that
\* token, makes no provider call, and neither the re-read nor the rest of
\* the call changes the cache entry.
C34_RecheckBeforeFetch ==
  /\ [](\A c \in AllCallers : served[c] = "read3" => pc[c] # "fetching")
  /\ [][\A c \in AllCallers :
          /\ (pc'[c] = "fetching" /\ pc[c] # "fetching") => pc[c] = "read3"
          /\ (/\ pc[c] = "read3" /\ pc'[c] \notin {"read3", "crashed"}
              /\ CachedToken(ProcOf[c], client_id[c]) # None)
               => /\ result'[c] = CachedToken(ProcOf[c], client_id[c])
                  /\ served'[c] = "read3"
                  /\ pc'[c] = IF lock_acquired[c] THEN "release" ELSE "done"
                  /\ CacheEntries(client_id[c])' = CacheEntries(client_id[c])
          /\ (served[c] = "read3" /\ pc'[c] \notin {pc[c], "crashed"})
               => /\ CacheEntries(client_id[c])' = CacheEntries(client_id[c])
                  /\ result'[c] = result[c]]_vars

\* A call that acquired the lock found, at the re-read, the token that
\* another caller had stored, returned it, and the cache still holds it.
C34_Witness ==
  \E c \in AllCallers :
    /\ pc[c] = "done" /\ served[c] = "read3" /\ lock_acquired[c]
    /\ result[c][1] # c
    /\ CachedToken(ProcOf[c], client_id[c]) = result[c]

\* The lock record of identity i that a step removes from the remote store
\* or from the fallback map of process p, as <<store, expiry>>; None when
\* the step removes no unexpired lock record.
RemovedLock(p, i) ==
  LET remote == redisStore[_lock_key(i)]
      local == memory_cache[p][_lock_key(i)]
  IN IF Live(remote, now) /\ redisStore'[_lock_key(i)] = None
       THEN <<"remote", remote[2]>>
     ELSE IF local # None /\ now < local[2] /\ memory_cache'[p][_lock_key(i)] = None
       THEN <<"memory", local[2]>>
     ELSE None

\* C35: the release step of get_token removes only the lock record that the
\* releasing call created: an unexpired lock record that it removes is the
\* one its own setnx wrote, never one that another caller acquired.
C35_ReleaseOwnLockOnly ==
  [][\A c \in AllCallers :
       (pc[c] = "release" /\ pc'[c] \in {"done", "failed"})
         => RemovedLock(ProcOf[c], client_id[c]) \in {None, lock_made[c]}]_vars

\* The tokens that the cache entries of identity i hold, in the remote
\* store and in every fallback map, and the tokens handed to callers.
TokensAround(i) ==
  LET entries == {redisStore[_cache_key(i)]}
                   \cup {memory_cache[p][_cache_key(i)] : p \in Procs}
  IN {e[1] : e \in {x \in entries : x # None}}
       \cup {result[d] : d \in AllCallers}

\* C36: a get_token call that fails with the provider's error writes
\* nothing under the cache key: the step in which the provider fails and
\* the release that follows leave the cache entry as it was, and no cache
\* entry and no caller ever holds a token made by the failed attempt.
C36_FailedCallWritesNothing ==
  /\ [](\A c \in AllCallers :
          ProviderFailed(c)
            => \A t \in TokensAround(client_id[c]) : t = None \/ t[1] # c)
  /\ [][\A c \in AllCallers :
          (/\ served[c] = "provider" /\ result'[c] = None
           /\ pc[c] \in {"fetching", "release"}
           /\ pc'[c] \notin {pc[c], "crashed"})
            => CacheEntries(client_id[c])' = CacheEntries(client_id[c])]_vars

\* A call that held the lock failed with the provider's error and the cache
\* has no token, while another call fetched a token before and returned it.
C36_Witness ==
  \E c, d \in AllCallers :
    /\ pc[c] = "failed" /\ ProviderFailed(c) /\ lock_acquired[c]
    /\ CachedToken(ProcOf[c], client_id[c]) = None
    /\ redisStore[_cache_key(client_id[c])] = None
    /\ pc[d] = "done" /\ result[d] = Token(d, ExpiresOn(result[d]))

\* C37: a get(key) that follows a delete(key) on the same RedisClient, with
\* no other operation of a client in between, returns absent, whatever the
\* remote store's availability was before and has become since.
C37_GetAfterDeleteAbsent ==
  [][(/\ kv_last.op = "delete" /\ kv_last.client \in Procs
      /\ kv_last'.op = "get"
      /\ kv_last'.client = kv_last.client
      /\ kv_last'.key = kv_last.key)
       => kv_last'.ret = None]_vars

\* ------------------------------------------------------------------------
\* The refresh daemon
\* ------------------------------------------------------------------------
\* Thread t is inside a refresh cycle: past the test of the stop event and
\* not yet at the wait.
InRefreshCycle(t) == d_pos[t] \in {"fetch", "validate"}

\* C38: once stop() has been called no thread of the daemon enters a
\* refresh cycle any more, also not a thread that a later start() creates;
\* only a cycle that was in progress goes on to its end.
C38_NoCycleAfterStop ==
  [][d_stop => \A t \in Tids : InRefreshCycle(t)' => InRefreshCycle(t)]_vars

\* stop() was called, the first thread has exited, start() was called again
\* and the thread it created has exited without a fetch of its own.
C38_Witness ==
  /\ d_stop
  /\ d_pos[1] = "exited" /\ d_pos[2] = "exited"
  /\ \E k \in 1..Len(d_cycles) : d_cycles[k].kind = "refresh" /\ d_cycles[k].tid = 1
  /\ \A k \in 1..Len(d_cycles) : d_cycles[k].tid # 2

\* Thread t completes a refresh cycle in this step: it reaches the wait.
CompletesCycle(t) == InRefreshCycle(t) /\ d_pos'[t] = "wait"

\* C39: when a refresh cycle completes, last_refresh_success is true exactly
\* if that cycle fetched the configuration and the configuration passed the
\* validation, and exactly one of total_refreshes and total_failures has
\* grown, by one.
C39_StatsFollowLatestCycle ==
  [][\A t \in Tids :
       CompletesCycle(t) =>
         LET cycle == d_cycles'[Len(d_cycles')]
             refreshed == d_stats'.total_refreshes - d_stats.total_refreshes
             failed == d_stats'.total_failures - d_stats.total_failures
         IN  /\ cycle.kind = "refresh" /\ cycle.tid = t
             /\ d_stats'.last_refresh_success
                  = (cycle.fetched /\ cycle.valid = "yes")
             /\ <<refreshed, failed>> \in {<<1, 0>>, <<0, 1>>}]_vars

\* ------------------------------------------------------------------------
\* The runner's change indicators
\* ------------------------------------------------------------------------
\* C40: the runner's last_etag and last_content_hash belong to the same
\* version of the blob: whenever last_etag is the etag of the version now in
\* the container, last_content_hash is the hash of that version's content,
\* so that an etag match skips only content that has been downloaded.
C40_EtagAndHashOfOneVersion ==
  (impl = "runner" /\ last_etag = Etag(blob_etag)) => last_hash = Hash(blob)

====
